---- MODULE Spec2Model ----
(***************************************************************************)
(* Serial transport (SerialDevice.py), Modbus CRC-16 (modbus_crc_16),      *)
(* response decoding (readBytes.py) and the soil-sensor polling loops      *)
(* (read_SoilSensors.py, read_SoilSensor.py) of Hortilite_Python.          *)
(*                                                                         *)
(* A call of a SerialDevice method is one action.  What the call did to    *)
(* the pySerial port is recorded in `events`, what it gave back to its     *)
(* caller in `ret`.  Every pySerial call can raise; the outcome of each    *)
(* port call of a handler is an input of the action.                       *)
(***************************************************************************)
EXTENDS Integers, Sequences, FiniteSets, TLC

VARIABLES
    \* ---- SerialDevice instance (src/SerialDevice.py) ----
    device,          \* self._device: the pySerial port, or None
    device_error,    \* self._device_error: "unset" (never assigned), TRUE, FALSE
    port_name,       \* self._port_name
    auto_reconnect,  \* self._auto_reconnect
    verbose,         \* self._verbose
    inbuf,           \* input buffer of the open port (bytes received, unread)
    \* ---- record of the last call ----
    op,              \* the method called
    ret,             \* what it returned or raised
    events,          \* the port calls it made, in order
    attempts,        \* serial.Serial(...) constructions it made
    pre,             \* _device and _device_error as they were when the call started
    req_size,        \* the size argument of the call (0 when it has none)
    req_reset,       \* the reset argument of the call (FALSE when it has none)
    \* ---- modbus_crc_16 ----
    crc_data,        \* the bytes given to modbus_crc_16
    crc_endian,      \* its endian argument
    crc_out,         \* per endian called so far, the results of the three copies
    \* ---- readBytes.read_value ----
    dec_frame,       \* the response frame (bytes) handed to the decoder
    dec_key,         \* inst_type
    dec_out,         \* the outcome of read_value on dec_frame.hex()
    dec_tampered,    \* TRUE once a payload bit of dec_frame has been flipped
    dec_origin,      \* what dec_frame is: a response, a miscounted one, an echo
    dec_locals,      \* device_id, eff_bytes and data as the decoder took them
    \* ---- polling loops ----
    catalog,         \* SoilSensorInstructions.json as loaded
    inst_type,       \* the key get_inst() returned when the script started
    poll_script,     \* which loop runs: read_soil_by_addr or read_SoilSensor.py
    poll_i,          \* the address being polled
    poll_end,        \* last address of the range
    poll_k,          \* position in the key list, 1-based
    poll_a,          \* the variable `a` carried by the loop
    poll_sent,       \* the frames written so far, each with address and position
    poll_log,        \* the writes, reads and sleeps of the pass, in order
    collected_data,  \* the dict collected_data of read_soil_by_addr
    poll_ret,        \* what the pass gave its caller, once it has ended
    poll_status,     \* "running", "done" or the exception that ended the pass
    \* ---- a read in force_timeout mode, statement by statement ----
    now,             \* time.time(), in seconds
    tmo,             \* the running call: its position, arguments and locals
    \* ---- read_while, statement by statement ----
    rw,              \* the running call: its position and the local out
    \* ---- HIKROBOTCamera instance (src/lib/Cameras.py) ----
    cam,             \* self.cam: TRUE when a driver handle is held, FALSE for None
    cam_connected,   \* self._connected
    cam_streaming,   \* self._streaming
    cam_testing,     \* self._testing
    cam_retry,       \* self._retry
    cam_load_settings, \* self._load_settings
    cam_op,          \* the method called last
    cam_ret,         \* "ok" or "raise": how it ended
    cam_calls,       \* the driver calls it made, in order
    \* ---- add_new_record (src/db_connect.py) ----
    db_data,         \* the Data collection of one sensor: document id -> data
    db_active,       \* the `active` field of the sensor document
    db_pre,          \* the Data collection as it was before the last call
    db_new,          \* the document id the last call wrote to
    db_calls         \* calls made so far

linkVars == <<device, device_error, port_name, auto_reconnect, verbose, inbuf,
              op, ret, events, attempts, pre, req_size, req_reset>>
crcVars  == <<crc_data, crc_endian, crc_out>>
decVars  == <<dec_frame, dec_key, dec_out, dec_tampered, dec_origin, dec_locals>>
pollVars == <<catalog, inst_type, poll_script, poll_i, poll_end, poll_k, poll_a,
              poll_sent, poll_log, collected_data, poll_ret, poll_status>>
tmoVars  == <<now, tmo>>
rwVars   == <<rw>>
camVars  == <<cam, cam_connected, cam_streaming, cam_testing, cam_retry,
              cam_load_settings, cam_op, cam_ret, cam_calls>>
dbVars   == <<db_data, db_active, db_pre, db_new, db_calls>>
vars == <<linkVars, crcVars, decVars, pollVars, tmoVars, rwVars, camVars, dbVars>>

-----------------------------------------------------------------------------
(* Bounds of the model *)

\* longest input buffer considered
MaxBuf == 3
\* largest size argument of read
MaxSize == 2
\* longest byte sequence given to modbus_crc_16
MaxCrcLen == 3
\* number of addresses of a polling range beyond the first
MaxSpan == 1

-----------------------------------------------------------------------------
(* Python's integer operators on non-negative integers *)

\* bit i of a, for a >= 0
Bit(a, i) == (a \div (2 ^ i)) % 2

\* bits i..i+3 of a ^ b, in place
Xor4(a, b, i) ==
    (   ((Bit(a, i) + Bit(b, i)) % 2) * (2 ^ i)
      + ((Bit(a, i + 1) + Bit(b, i + 1)) % 2) * (2 ^ (i + 1)) )
    + (   ((Bit(a, i + 2) + Bit(b, i + 2)) % 2) * (2 ^ (i + 2))
        + ((Bit(a, i + 3) + Bit(b, i + 3)) % 2) * (2 ^ (i + 3)) )

\* bits i..i+3 of a & b, in place
And4(a, b, i) ==
    (   (Bit(a, i) * Bit(b, i)) * (2 ^ i)
      + (Bit(a, i + 1) * Bit(b, i + 1)) * (2 ^ (i + 1)) )
    + (   (Bit(a, i + 2) * Bit(b, i + 2)) * (2 ^ (i + 2))
        + (Bit(a, i + 3) * Bit(b, i + 3)) * (2 ^ (i + 3)) )

RECURSIVE BitXor(_, _)
\* a ^ b, sixteen bits at a time
BitXor(a, b) ==
    LET low == (Xor4(a, b, 0) + Xor4(a, b, 4)) + (Xor4(a, b, 8) + Xor4(a, b, 12))
    IN  IF a < 65536 /\ b < 65536 THEN low
        ELSE low + 65536 * BitXor(a \div 65536, b \div 65536)

RECURSIVE BitAnd(_, _)
\* a & b, sixteen bits at a time
BitAnd(a, b) ==
    LET low == (And4(a, b, 0) + And4(a, b, 4)) + (And4(a, b, 8) + And4(a, b, 12))
    IN  IF a < 65536 \/ b < 65536 THEN low
        ELSE low + 65536 * BitAnd(a \div 65536, b \div 65536)

\* a >> 1
Shr1(a) == a \div 2

\* a >> 8
Shr8(a) == a \div 256

\* s[:n] for 0 <= n
Take(s, n) == SubSeq(s, 1, IF n < Len(s) THEN n ELSE Len(s))

\* s[n:] for 0 <= n
Drop(s, n) == SubSeq(s, n + 1, Len(s))

\* e in s, for a sequence s
Has(s, e) == \E i \in 1..Len(s) : s[i] = e

SeqsUpTo(S, n) == UNION { [1..k -> S] : k \in 0..n }

-----------------------------------------------------------------------------
(* modbus_crc_16: the three copies of the function, each from its own file *)

\* what a Python function returns when it falls off its end
NoResult == <<>>

\* --- read_SoilSensor.py ---

\* the mutant of crc_shift: the polynomial of CRC-16/ARC written unreflected
crc_shift_Poly8005(crc) ==
    IF BitAnd(crc, 1) # 0 THEN BitXor(Shr1(crc), 32773) ELSE Shr1(crc)

\* if ((crc & 1) != 0): crc >>= 1; crc ^= 0xA001  else: crc >>= 1
crc_shift(crc) ==
    IF BitAnd(crc, 1) # 0 THEN BitXor(Shr1(crc), 40961) ELSE Shr1(crc)

RECURSIVE crc_range8(_, _)
\* for i in range(8).  Each step is bound to its value before the next one
\* starts (the set binding), so that the evaluation does not nest 8 deep per byte.
crc_range8(crc, n) ==
    IF n = 0 THEN crc
    ELSE CHOOSE r \in { crc_range8(c, n - 1) : c \in {crc_shift(crc)} } : TRUE

RECURSIVE crc_bytes(_, _, _)
\* for pos in data: crc ^= pos; for i in range(8): ...
crc_bytes(crc, data, k) ==
    IF k > Len(data) THEN crc
    ELSE CHOOSE r \in { crc_bytes(c, data, k + 1) :
                          c \in {crc_range8(BitXor(crc, data[k]), 8)} } : TRUE

\* the mutant of modbus_crc_16: "big" gives the high byte first
modbus_crc_16_HighFirst(data, endian) ==
    LET crc == crc_bytes(65535, data, 1)
    IN  IF endian = "little" THEN <<Shr8(crc), BitAnd(crc, 255)>>
        ELSE IF endian = "big" THEN <<Shr8(crc), BitAnd(crc, 255)>>
        ELSE NoResult

\* modbus_crc_16 of read_SoilSensor.py
modbus_crc_16(data, endian) ==
    LET crc == crc_bytes(65535, data, 1)
    IN  IF endian = "little" THEN <<Shr8(crc), BitAnd(crc, 255)>>
        ELSE IF endian = "big" THEN <<BitAnd(crc, 255), Shr8(crc)>>
        ELSE NoResult

\* --- read_SoilSensors.py ---

crc_shift_SoilSensors(crc) ==
    IF BitAnd(crc, 1) # 0 THEN BitXor(Shr1(crc), 40961) ELSE Shr1(crc)

RECURSIVE crc_range8_SoilSensors(_, _)
crc_range8_SoilSensors(crc, n) ==
    IF n = 0 THEN crc
    ELSE CHOOSE r \in { crc_range8_SoilSensors(c, n - 1) : c \in {crc_shift_SoilSensors(crc)} } : TRUE

RECURSIVE crc_bytes_SoilSensors(_, _, _)
crc_bytes_SoilSensors(crc, data, k) ==
    IF k > Len(data) THEN crc
    ELSE CHOOSE r \in { crc_bytes_SoilSensors(c, data, k + 1) :
                          c \in {crc_range8_SoilSensors(BitXor(crc, data[k]), 8)} } : TRUE

\* modbus_crc_16 of read_SoilSensors.py
modbus_crc_16_SoilSensors(data, endian) ==
    LET crc == crc_bytes_SoilSensors(65535, data, 1)
    IN  IF endian = "little" THEN <<Shr8(crc), BitAnd(crc, 255)>>
        ELSE IF endian = "big" THEN <<BitAnd(crc, 255), Shr8(crc)>>
        ELSE NoResult

\* --- read_Cameras.py ---

crc_shift_Cameras(crc) ==
    IF BitAnd(crc, 1) # 0 THEN BitXor(Shr1(crc), 40961) ELSE Shr1(crc)

RECURSIVE crc_range8_Cameras(_, _)
crc_range8_Cameras(crc, n) ==
    IF n = 0 THEN crc
    ELSE CHOOSE r \in { crc_range8_Cameras(c, n - 1) : c \in {crc_shift_Cameras(crc)} } : TRUE

RECURSIVE crc_bytes_Cameras(_, _, _)
crc_bytes_Cameras(crc, data, k) ==
    IF k > Len(data) THEN crc
    ELSE CHOOSE r \in { crc_bytes_Cameras(c, data, k + 1) :
                          c \in {crc_range8_Cameras(BitXor(crc, data[k]), 8)} } : TRUE

\* the mutant of modbus_crc_16_Cameras: "little" gives the bytes in the order
\* of "big"
modbus_crc_16_Cameras_SameOrder(data, endian) ==
    LET crc == crc_bytes_Cameras(65535, data, 1)
    IN  IF endian = "little" THEN <<BitAnd(crc, 255), Shr8(crc)>>
        ELSE IF endian = "big" THEN <<BitAnd(crc, 255), Shr8(crc)>>
        ELSE NoResult

\* modbus_crc_16 of read_Cameras.py
modbus_crc_16_Cameras(data, endian) ==
    LET crc == crc_bytes_Cameras(65535, data, 1)
    IN  IF endian = "little" THEN <<Shr8(crc), BitAnd(crc, 255)>>
        ELSE IF endian = "big" THEN <<BitAnd(crc, 255), Shr8(crc)>>
        ELSE NoResult

-----------------------------------------------------------------------------
(* SerialDevice: values *)

\* self._device = None
None == [present |-> FALSE]

\* the values a method hands back
NoneVal == [kind |-> "None"]
TrueVal == [kind |-> "True"]
\* a SerialDevice object, as init_port returns it
LinkVal == [kind |-> "link"]
BytesVal(b) == [kind |-> "bytes", data |-> b]

\* platform.machine() in ['armv7l'] (the Raspberry Pi the scripts run on)
serial_prefix == "/dev/"

\* a port name is the sequence of its path components
PortNames == { <<"ttyUSB0">>, <<serial_prefix, "ttyUSB0">> }

\* bytes that travel over the link in the transport model
LinkBytes == {1, 2}

\* number of trials of reconnect (its default argument)
trials == 3

\* the data written by write and write_read in the transport model
Instructions == { <<1>>, <<1, 2>> }

\* baudRate, parity, stopBits, byteSize, timeOut as given to init_port:
\* the scripts' values and a second setting (timeout None blocks forever)
PortSettings ==
    { [baudrate |-> 9600, parity |-> "N", stopbits |-> 1, bytesize |-> 8,
       timeout |-> "2"],
      [baudrate |-> 19200, parity |-> "E", stopbits |-> 2, bytesize |-> 7,
       timeout |-> "None"] }

\* if not serial_prefix in port_name: to_open = serial_prefix + port_name
ToOpen(name) ==
    IF ~Has(name, serial_prefix) THEN <<serial_prefix>> \o name ELSE name

\* serial.Serial(port=to_open, **prop) once it has opened
Serial(to_open, prop) ==
    [present |-> TRUE, port |-> to_open, baudrate |-> prop.baudrate,
     parity |-> prop.parity, stopbits |-> prop.stopbits,
     bytesize |-> prop.bytesize, timeout |-> prop.timeout]

\* the mutant of CapturedProps: reopen with init_port's defaults
CapturedProps_Defaults(d) ==
    [baudrate |-> 9600, parity |-> "N", stopbits |-> 1, bytesize |-> 8,
     timeout |-> "None"]

\* prop = {x: self._device.__dict__["_"+x] for x in [...]}
CapturedProps(d) ==
    [baudrate |-> d.baudrate, parity |-> d.parity, stopbits |-> d.stopbits,
     bytesize |-> d.bytesize, timeout |-> d.timeout]

\* _encode / _decode: the identity unless overridden (SerialSensors overrides
\* them with the identity too)
_encode(val) == val
_decode(val) == val

-----------------------------------------------------------------------------
(* SerialDevice: the running call.  m carries the object's fields, the log *)
(* of the call, the exception in flight (exc) and the value returned (val). *)

Start ==
    [device |-> device, device_error |-> device_error, port_name |-> port_name,
     auto_reconnect |-> auto_reconnect, verbose |-> verbose, inbuf |-> inbuf,
     events |-> <<>>, attempts |-> 0, exc |-> "", val |-> NoneVal]

Ev(m, e) == [m EXCEPT !.events = Append(@, e)]
Raise(m, e) == [m EXCEPT !.exc = e]
Return(m, v) == [m EXCEPT !.val = v]

\* bytes reaching the input buffer of the open port; the buffer is finite
Arrive(m, arr) == [m EXCEPT !.inbuf = @ \o Take(arr, MaxBuf - Len(@))]

\* the mutant of ResetBuffers: the input buffer keeps its bytes
ResetBuffers_KeepsInput(m, fails) ==
    IF fails THEN Raise(Ev(m, "reset_raise"), "SerialException")
    ELSE Ev(m, "reset")

\* self._device.reset_input_buffer() (and reset_output_buffer())
ResetBuffers(m, fails) ==
    IF fails THEN Raise(Ev(m, "reset_raise"), "SerialException")
    ELSE [Ev(m, "reset") EXCEPT !.inbuf = <<>>]

\* self._device.read(n) of pySerial: the bytes received before the port's
\* timeout, at most n; with timeout None it waits for n bytes
PortRead(m, n) ==
    IF m.device.timeout = "None" /\ Len(m.inbuf) < n THEN Raise(m, "blocks")
    ELSE [Ev(m, "read") EXCEPT !.val = BytesVal(Take(m.inbuf, n)),
                               !.inbuf = Drop(m.inbuf, n)]

\* the mutant of disconnect: the port is kept when close() raises
disconnect_KeepsOnError(m, closeFails) ==
    IF ~m.device.present THEN m
    ELSE IF closeFails THEN Ev(m, "close_raise")
    ELSE [Ev(m, "close") EXCEPT !.device = None, !.inbuf = <<>>]

\* disconnect (lines 145-159): close, swallow what close raises, drop the port
disconnect(m, closeFails) ==
    LET closed == IF ~m.device.present THEN m      \* AttributeError, swallowed
                  ELSE IF closeFails THEN Ev(m, "close_raise")
                  ELSE Ev(m, "close")
    IN  [closed EXCEPT !.device = None, !.inbuf = <<>>]

\* self._device = serial.Serial(port=to_open, **prop): the constructor opens
\* the port and raises SerialException when it cannot; it never returns None
SerialOpen(m, ok, to_open, prop) ==
    LET n == [m EXCEPT !.attempts = @ + 1]
    IN  IF ok THEN [Ev(n, "open") EXCEPT !.device = Serial(to_open, prop)]
        ELSE Raise(Ev(n, "open_raise"), "SerialException")

RECURSIVE reconnect_retry(_, _, _, _, _, _)
\* the while loop of reconnect (lines 404-414); attempt n succeeds iff n > nfail
reconnect_retry(m, j, closeFails, nfail, to_open, prop) ==
    IF ~m.device.present /\ j > 0
    THEN LET m1 == disconnect(m, closeFails)
             m2 == SerialOpen(m1, m1.attempts + 1 > nfail, to_open, prop)
         IN  IF m2.exc # "" THEN m2
             ELSE IF m2.device.present THEN m2
             ELSE reconnect_retry(m2, j - 1, closeFails, nfail, to_open, prop)
    ELSE m

\* reconnect (lines 379-419)
reconnect(m, ntrials, closeFails, nfail) ==
    IF ~m.device.present THEN Raise(m, "AttributeError")   \* None.__dict__
    ELSE LET prop == CapturedProps(m.device)
             m1 == disconnect(m, closeFails)
             to_open == ToOpen(m.port_name)
             m2 == SerialOpen(m1, 1 > nfail, to_open, prop)
             m3 == IF m2.exc # "" THEN m2
                   ELSE reconnect_retry(m2, ntrials, closeFails, nfail,
                                        to_open, prop)
         IN  IF m3.exc # "" THEN m3
             ELSE IF ~m3.device.present THEN Return(m3, NoneVal)
             ELSE Return([m3 EXCEPT !.device_error = "false"], TrueVal)

\* lines 269-272 of _write
_write_failed(m, c) ==
    IF m.device_error = "unset" THEN Raise(m, "AttributeError")
    ELSE IF m.device_error = "true"
    THEN LET r == reconnect(m, trials, c.closeFails, c.nfail)
         IN  IF r.exc # "" THEN r ELSE Return(r, NoneVal)
    ELSE Return(m, NoneVal)

\* lines 243-265 of _write: read back the echo of what was written
_write_check(m, to_send, reset_check, force_timeout, c) ==
    LET n == Len(to_send)
        m1 == IF c.readFails THEN Raise(Ev(m, "read_raise"), "SerialException")
              ELSE IF force_timeout
              THEN IF Len(m.inbuf) >= n THEN PortRead(m, n)
                   ELSE Return(m, NoneVal)
              ELSE PortRead(m, n)
        m2 == IF m1.exc # "" \/ ~reset_check THEN m1
              ELSE ResetBuffers(m1, c.resetFails)
    IN  IF m2.exc # "" THEN m2
        ELSE IF m2.val = BytesVal(to_send) THEN Return(m2, BytesVal(_decode(to_send)))
        ELSE Return(m2, NoneVal)

\* _write (lines 202-272)
_write(m, instruction, reset, check, reset_check, force_timeout, c) ==
    IF m.device.present
    THEN LET m1 == IF reset THEN ResetBuffers(m, c.resetFails) ELSE m
             to_send == _encode(instruction)
         IN  IF m1.exc # "" THEN m1
             ELSE IF c.writeFails
             THEN _write_failed([Ev(m1, "write_raise") EXCEPT
                                    !.device_error = "true"], c)
             ELSE LET m2 == Arrive(Ev(m1, "write"), c.arr)
                  IN  IF check
                      THEN _write_check(m2, to_send, reset_check,
                                        force_timeout, c)
                      ELSE Return(m2, NoneVal)
    ELSE _write_failed(m, c)

\* lines 329-340 of _read: nothing was read
_read_failed(m, c) ==
    IF m.auto_reconnect /\ m.device_error = "true"
    THEN LET r == reconnect(m, trials, c.closeFails, c.nfail)
         IN  IF r.exc # "" THEN r ELSE Return(r, NoneVal)
    ELSE Return(m, NoneVal)

\* _read (lines 274-340)
_read(m, size, reset, force_timeout, c) ==
    IF ~m.device.present THEN Return(m, NoneVal)
    ELSE LET m0 == Arrive(m, c.arr)
         IN  IF c.readFails
             THEN Return([Ev(m0, "read_raise") EXCEPT !.device_error = "true"],
                         NoneVal)
             ELSE LET m1 == IF force_timeout
                            THEN IF Len(m0.inbuf) >= size THEN PortRead(m0, size)
                                 ELSE Return(m0, NoneVal)
                            ELSE PortRead(m0, size)
                  IN  IF m1.exc # "" THEN m1
                      \* line 319: print("read", size, ret.hex()) with ret None
                      ELSE IF m.verbose /\ m1.val = NoneVal
                      THEN Raise(m1, "AttributeError")
                      ELSE IF m1.val # NoneVal /\ Len(m1.val.data) > 0
                      THEN IF reset
                           THEN LET m2 == ResetBuffers(m1, c.resetFails)
                                IN  IF m2.exc # "" THEN m2
                                    ELSE Return(m2, BytesVal(_decode(m1.val.data)))
                           ELSE Return(m1, BytesVal(_decode(m1.val.data)))
                      ELSE _read_failed(m1, c)

\* _write_read (lines 161-200); has_size is `not size is None`
_write_read(m, instruction, has_size, size, reset, reset_out, reset_in, check, c) ==
    LET ro == reset \/ reset_out
        ri == reset \/ reset_in
    IN  IF m.device.present
        THEN LET w == _write(m, instruction, ro, check, FALSE, FALSE, c)
             IN  IF w.exc # "" THEN w
                 ELSE IF check /\ w.val = NoneVal THEN Return(w, NoneVal)
                 ELSE IF has_size
                 THEN _read(Return(w, NoneVal), size, ri, FALSE,
                            [c EXCEPT !.arr = <<>>])
                 ELSE Return(w, NoneVal)
        ELSE Return(m, NoneVal)

\* connect (lines 140-143): self._device.open().  Without a port the
\* attribute lookup on None raises; a port the link holds is already open,
\* and pySerial's open() raises on an open port
connect(m) ==
    IF ~m.device.present THEN Raise(m, "AttributeError")
    ELSE Raise(Ev(m, "connect_raise"), "SerialException")

\* what serial.Serial(...) does inside init_port: it opens the port, or
\* raises an IOError (SerialException is one), a ValueError, or something else
SerialOutcomes == {"ok", "IOError", "ValueError", "Exception"}

\* init_port (lines 85-107) with __init__ (lines 46-69) and initialize
\* (lines 133-138): the new object as the fields of m, m.val what the caller
\* gets.  When no object is made the caller keeps the link it had.
init_port(m, testing, prop, outcome, resetFails) ==
    IF testing
    THEN Return([m EXCEPT !.device = None, !.device_error = "unset",
                          !.inbuf = <<>>], LinkVal)
    ELSE LET n == [m EXCEPT !.attempts = @ + 1]
         IN  IF outcome = "IOError" THEN Raise(Ev(n, "open_raise"), "IOError")
             ELSE IF outcome = "ValueError"
             THEN Raise(Ev(n, "open_raise"), "ValueError")
             ELSE IF outcome = "Exception"
             THEN Return(Ev(n, "open_raise"), NoneVal)    \* print("Error", e)
             ELSE LET o == [Ev(n, "open") EXCEPT
                               !.device = Serial(ToOpen(m.port_name), prop),
                               !.device_error = "unset", !.inbuf = <<>>]
                      i == ResetBuffers(o, resetFails)
                  IN  IF i.exc # "" THEN [m EXCEPT !.exc = i.exc,
                                                  !.events = i.events,
                                                  !.attempts = i.attempts]
                      ELSE Return([i EXCEPT !.device_error = "false"], LinkVal)

RECURSIVE read_while_loop(_, _, _, _, _)
\* the while loop of _read_while (lines 364-368): n port reads were made so
\* far, out is the accumulator (NoneVal for None); the failAt-th port read
\* raises, and `late` arrives while the first byte is being taken
read_while_loop(m, out, n, failAt, late) ==
    IF m.exc # "" \/ Len(m.inbuf) = 0 THEN Return(m, out)
    ELSE CHOOSE x \in {
           IF got.exc # "" THEN got
           ELSE IF out = NoneVal
           THEN read_while_loop(got, got.val, n + 1, failAt, late)
           ELSE IF got.val = NoneVal
           THEN Raise(got, "TypeError")          \* bytes += None
           ELSE read_while_loop(got, BytesVal(out.data \o got.val.data),
                                n + 1, failAt, late)
           : got \in { IF n = 0 THEN Arrive(r, late) ELSE r :
                 r \in { _read(Return(m, NoneVal), 1, FALSE, FALSE,
                               [resetFails |-> FALSE, writeFails |-> FALSE,
                                readFails |-> (n + 1 = failAt),
                                closeFails |-> FALSE, nfail |-> 0,
                                arr |-> <<>>]) } } } : TRUE

\* _read_while (lines 342-377)
_read_while(m, reset, failAt, late, resetFails) ==
    IF ~m.device.present THEN Raise(m, "AttributeError")   \* None.in_waiting
    ELSE CHOOSE x \in {
           IF z.exc # "" \/ z.val = NoneVal THEN z     \* _decode(None)
           ELSE Return(z, BytesVal(_decode(z.val.data)))
           : z \in { IF w.exc # "" \/ ~reset THEN w
                     ELSE Return(ResetBuffers(w, resetFails), w.val) :
                 w \in { read_while_loop(m, NoneVal, 0, failAt, late) } } }
         : TRUE

-----------------------------------------------------------------------------
(* SerialDevice: construction and the calls a caller can make *)

\* the outcome of the call as its caller sees it
Outcome(m) == IF m.exc # "" THEN [kind |-> "raise", exc |-> m.exc] ELSE m.val

\* the call ends: the object keeps what the call left in it
Finish(name, size, m) ==
    /\ m.exc # "blocks"
    /\ device' = m.device
    /\ device_error' = m.device_error
    /\ inbuf' = m.inbuf
    /\ op' = name
    /\ ret' = Outcome(m)
    /\ events' = m.events
    /\ attempts' = m.attempts
    /\ pre' = [device |-> device, device_error |-> device_error]
    /\ req_size' = size
    /\ UNCHANGED <<port_name, auto_reconnect, verbose>>

\* what the device at the other end can answer to one write
Replies == { <<>>, <<1>>, <<1, 2>> }

\* serial.Serial(...) constructions one reconnect can make: line 403 and the loop
MaxAttempts == trials + 1

\* how many of the first reopen attempts fail: none, the first, all
NFails == {0, 1, MaxAttempts}

\* the values of an input that matters only when cond holds
When(cond, S, dflt) == IF cond THEN S ELSE {dflt}

\* init_port (lines 85-107) followed by __init__ (lines 46-69): a link in
\* testing mode holds no port and never assigns _device_error; otherwise the
\* port is open, initialize() has reset the buffers and cleared the flag
LinkInit ==
    /\ port_name \in PortNames
    /\ auto_reconnect \in BOOLEAN
    /\ verbose = FALSE
    /\ \E testing \in BOOLEAN, s \in PortSettings :
          /\ device = IF testing THEN None ELSE Serial(ToOpen(port_name), s)
          /\ device_error = IF testing THEN "unset" ELSE "false"
          /\ attempts = IF testing THEN 0 ELSE 1
    /\ inbuf = <<>>
    /\ op = "init_port"
    /\ ret = LinkVal
    /\ events = <<>>
    /\ pre = [device |-> None, device_error |-> "unset"]
    /\ req_size = 0
    /\ req_reset = FALSE

\* a byte reaches the input buffer of the open port between two calls
Receive ==
    /\ device.present
    /\ Len(inbuf) < MaxBuf
    /\ \E b \in LinkBytes : inbuf' = Append(inbuf, b)
    /\ op' = "receive"
    /\ ret' = NoneVal
    /\ events' = <<>>
    /\ attempts' = 0
    /\ pre' = [device |-> device, device_error |-> device_error]
    /\ req_size' = 0
    /\ req_reset' = FALSE
    /\ UNCHANGED <<device, device_error, port_name, auto_reconnect, verbose>>

\* write(instruction, reset, check, reset_check, force_timeout).  An input is
\* enumerated only where the call reads it.
Write ==
    \E reset \in BOOLEAN :
    \E resetFails \in When(device.present /\ reset, BOOLEAN, FALSE) :
    \E writeFails \in When(device.present /\ ~resetFails, BOOLEAN, FALSE) :
    \E check \in When(device.present /\ ~resetFails /\ ~writeFails, BOOLEAN, FALSE) :
    \E readFails \in When(check, BOOLEAN, FALSE) :
    \E instruction \in When(check /\ ~readFails, Instructions, <<1>>),
       reset_check \in When(check /\ ~readFails, BOOLEAN, FALSE),
       force_timeout \in When(check /\ ~readFails, BOOLEAN, FALSE),
       closeFails \in When(writeFails, BOOLEAN, FALSE),
       nfail \in When(writeFails, NFails, 0),
       arr \in When(device.present /\ ~resetFails /\ ~writeFails /\ ~readFails,
                    Replies, <<>>) :
        /\ Finish("write", 0,
               _write(Start, instruction, reset, check, reset_check, force_timeout,
                      [resetFails |-> resetFails, writeFails |-> writeFails,
                       readFails |-> readFails, closeFails |-> closeFails,
                       nfail |-> nfail, arr |-> arr]))
        /\ req_reset' = reset

\* read(size, reset, force_timeout)
Read ==
    \E readFails \in When(device.present, BOOLEAN, FALSE) :
    \E size \in When(device.present /\ ~readFails, 1..MaxSize, 1),
       force_timeout \in When(device.present /\ ~readFails, BOOLEAN, FALSE),
       reset \in When(device.present /\ ~readFails, BOOLEAN, FALSE) :
    \E resetFails \in When(reset, BOOLEAN, FALSE),
       closeFails \in When(device.present /\ ~readFails /\ auto_reconnect
                              /\ device_error = "true", BOOLEAN, FALSE),
       nfail \in When(device.present /\ ~readFails /\ auto_reconnect
                         /\ device_error = "true", NFails, 0) :
        /\ Finish("read", size,
               _read(Start, size, reset, force_timeout,
                     [resetFails |-> resetFails, writeFails |-> FALSE,
                      readFails |-> readFails, closeFails |-> closeFails,
                      nfail |-> nfail, arr |-> <<>>]))
        /\ req_reset' = reset

\* write_read(instruction, size, reset, check); reset_out and reset_in are
\* left at their default True
WriteRead ==
    \E reset \in BOOLEAN :
    \E resetFails \in When(device.present /\ reset, BOOLEAN, FALSE) :
    \E writeFails \in When(device.present /\ ~resetFails, BOOLEAN, FALSE) :
    \E closeFails \in When(writeFails, BOOLEAN, FALSE),
       nfail \in When(writeFails, NFails, 0),
       check \in When(device.present /\ ~resetFails, BOOLEAN, FALSE),
       has_size \in When(device.present /\ ~resetFails, BOOLEAN, FALSE) :
    \E readFails \in When(check \/ has_size, BOOLEAN, FALSE),
       size \in When(has_size, 1..MaxSize, 0),
       instruction \in When(check /\ ~writeFails, Instructions, <<1>>),
       arr \in When(device.present /\ ~resetFails /\ ~writeFails, Replies, <<>>) :
        /\ Finish("write_read", size,
               _write_read(Start, instruction, has_size, size, reset, TRUE, TRUE,
                           check,
                           [resetFails |-> resetFails, writeFails |-> writeFails,
                            readFails |-> readFails, closeFails |-> closeFails,
                            nfail |-> nfail, arr |-> arr]))
        /\ req_reset' = reset

\* reconnect(), with its default number of trials
Reconnect ==
    \E closeFails \in When(device.present, BOOLEAN, FALSE),
       nfail \in When(device.present, NFails, 0) :
        /\ Finish("reconnect", 0, reconnect(Start, trials, closeFails, nfail))
        /\ req_reset' = FALSE

\* disconnect()
\* the mutant of Disconnect: the AttributeError of None.close() gets out
Disconnect_RaisesOnClosed ==
    \E closeFails \in When(device.present, BOOLEAN, FALSE) :
        /\ Finish("disconnect", 0,
                  IF device.present
                  THEN Return(disconnect(Start, closeFails), NoneVal)
                  ELSE Raise(Start, "AttributeError"))
        /\ req_reset' = FALSE

\* disconnect()
Disconnect ==
    \E closeFails \in When(device.present, BOOLEAN, FALSE) :
        /\ Finish("disconnect", 0, Return(disconnect(Start, closeFails), NoneVal))
        /\ req_reset' = FALSE

\* connect()
Connect ==
    /\ Finish("connect", 0, connect(Start))
    /\ req_reset' = FALSE

\* SerialDevice.init_port(port_name, ...) called again by the owner of a
\* link that holds no port, with the name and flags of that link
InitPort ==
    /\ ~device.present
    /\ \E testing \in BOOLEAN :
       \E prop \in When(~testing, PortSettings,
                        CHOOSE st \in PortSettings : st.baudrate = 9600),
          outcome \in When(~testing, SerialOutcomes, "ok") :
       \E resetFails \in When(~testing /\ outcome = "ok", BOOLEAN, FALSE) :
          Finish("init_port", 0,
                 init_port(Start, testing, prop, outcome, resetFails))
    /\ req_reset' = FALSE

\* bytes that can reach the port while read_while drains it
LateBytes == { <<>>, <<2>> }

\* read_while(reset): sleep, sleep_inner and decode at their defaults
ReadWhile ==
    \E reset \in When(device.present, BOOLEAN, FALSE) :
    \E failAt \in When(device.present /\ Len(inbuf) > 0, 0..2, 0),
       late \in When(device.present /\ Len(inbuf) > 0, LateBytes, <<>>) :
    \E resetFails \in When(reset, BOOLEAN, FALSE) :
        /\ Finish("read_while", 0,
                  _read_while(Start, reset, failAt, late, resetFails))
        /\ req_reset' = reset

\* the auto_reconnect setter (lines 117-124)
SetAutoReconnect ==
    \E a \in BOOLEAN :
        /\ auto_reconnect' = a
        /\ op' = "auto_reconnect"
        /\ ret' = NoneVal
        /\ events' = <<>>
        /\ attempts' = 0
        /\ pre' = [device |-> device, device_error |-> device_error]
        /\ req_size' = 0
        /\ req_reset' = FALSE
        /\ UNCHANGED <<device, device_error, port_name, verbose, inbuf>>

-----------------------------------------------------------------------------
(* modbus_crc_16 applied to byte sequences *)

\* byte values the checksum is computed over
CrcBytes == {0, 1, 3, 19, 255}

\* the request [0x01, 0x03, 0x00, 0x13, 0x00, 0x01] of the specification
ReferenceVector == <<1, 3, 0, 19, 0, 1>>

\* the endian arguments: the two the function knows and one it does not
Endians == {"big", "little", "native"}

CrcNotCalled == [e \in Endians |-> <<>>]

CrcInit ==
    /\ crc_data \in SeqsUpTo(CrcBytes, MaxCrcLen) \cup {ReferenceVector}
    /\ crc_endian = "big"
    /\ crc_out = CrcNotCalled

\* one call of each copy of modbus_crc_16(crc_data, endian)
CrcCall ==
    \E mode \in Endians :
        /\ crc_out[mode] = <<>>
        /\ crc_endian' = mode
        /\ crc_out' = [crc_out EXCEPT ![mode] =
                          << modbus_crc_16(crc_data, mode),
                             modbus_crc_16_SoilSensors(crc_data, mode),
                             modbus_crc_16_Cameras(crc_data, mode) >>]
        /\ UNCHANGED crc_data

-----------------------------------------------------------------------------
(* SoilSensorInstructions.json, as the specification describes it: each     *)
(* instruction key maps to {bytes, convert_rate, description}.  `bytes` is  *)
(* the request template register_hi register_lo count_hi count_lo.         *)

AllKeys == {"1", "2", "3", "4", "5", "6", "7", "8"}

\* number of 16-bit registers the instruction of a key asks for
KeyWords(key) == IF key = "1" THEN 2 ELSE IF key = "5" THEN 3 ELSE 1

\* register address of the first register of a key
KeyRegister(key) ==
    CASE key = "1" -> 18 [] key = "2" -> 19 [] key = "3" -> 21
      [] key = "4" -> 6  [] key = "5" -> 30 [] key = "6" -> 30
      [] key = "7" -> 31 [] OTHER -> 32

FullCatalog ==
    [key \in AllKeys |->
        [bytes |-> <<0, KeyRegister(key), 0, KeyWords(key)>>,
         convert_rate |-> IF key \in {"1", "2", "4"} THEN 10 ELSE 1]]

\* the catalogs considered: the full one and two partial ones
Catalogs ==
    { [key \in K |-> FullCatalog[key]] : K \in {AllKeys, {"2", "4"}, {"6", "7", "8"}} }

-----------------------------------------------------------------------------
(* readBytes.py on hex strings.  A hex string is the sequence of its digits *)
(* (0..15), two per byte, as bytes.hex() produces them.                     *)

RECURSIVE hex(_)
\* data.hex()
hex(bytes) ==
    IF bytes = <<>> THEN <<>>
    ELSE <<Head(bytes) \div 16, Head(bytes) % 16>> \o hex(Tail(bytes))

\* s[i:j] of Python for 0 <= i <= j
Slice(s, i, j) == SubSeq(s, i + 1, IF j < Len(s) THEN j ELSE Len(s))

\* s[:-n] of Python
DropLast(s, n) == SubSeq(s, 1, Len(s) - n)

RECURSIVE int_base(_, _)
\* the number a digit string denotes in a base
int_base(s, base) ==
    IF s = <<>> THEN 0
    ELSE int_base(SubSeq(s, 1, Len(s) - 1), base) * base + s[Len(s)]

\* int(s): s must be a non-empty string of decimal digits
int_ok(s, base) == s # <<>> /\ \A k \in 1..Len(s) : s[k] < base

\* the mutant of hex_to_signed: the sign threshold is off by one
hex_to_signed_Above8000(value) ==
    LET v == int_base(value, 16)
    IN  IF v > 32768 THEN v - 65536 ELSE v

\* hex_to_signed (lines 6-13), where int(value, 16) succeeds
hex_to_signed(value) ==
    LET v == int_base(value, 16)
    IN  IF v >= 32768 THEN v - 65536 ELSE v

\* the mutant of get_dev_id: the function code instead of the address
get_dev_id_SecondByte(result) == Slice(result, 2, 4)

\* get_dev_id (lines 23-25)
get_dev_id(result) == Slice(result, 0, 2)

\* the mutant of chunks: fields of one byte
chunks_Bytes(data) ==
    [k \in 1..((Len(data) + 1) \div 2) |-> Slice(data, 2 * (k - 1), 2 * k)]

\* [data[i:i+4] for i in range(0, len(data), 4)]
chunks(data) ==
    [k \in 1..((Len(data) + 3) \div 4) |-> Slice(data, 4 * (k - 1), 4 * k)]

\* outcomes of read_value: a dict of quantities, each raw / convert_rate
\* (kept as the pair of raw and rate), None, or an exception
DecNotCalled == [kind |-> "idle", exc |-> "", fields |-> <<>>, rate |-> 0]
Quantities(names, raws, rate) ==
    [kind |-> "reading", exc |-> "",
     fields |-> [k \in 1..Len(names) |-> <<names[k], raws[k]>>], rate |-> rate]
Raises(e) == [kind |-> "raise", exc |-> e, fields |-> <<>>, rate |-> 0]
ReturnsNone == [kind |-> "None", exc |-> "", fields |-> <<>>, rate |-> 0]

\* the branches of read_value with one quantity (lines 41-49, 57-62)
SingleNames ==
    [k \in {"2", "3", "4", "6", "7"} |->
        CASE k = "2" -> "Moisture" [] k = "3" -> "EC" [] k = "4" -> "pH"
          [] k = "6" -> "Nitrogen" [] OTHER -> "Phosphorus"]

\* eff_bytes of read_value (lines 29-31)
read_value_eff_bytes(result) == Slice(DropLast(result, 4), 4, 4 + 2)

\* data of read_value (line 32), where int(eff_bytes) succeeds
read_value_data(result) ==
    Slice(DropLast(result, 4), 6,
          6 + int_base(read_value_eff_bytes(result), 10) * 2)

\* read_value (lines 27-65) of result with inst_type = key; instructions is
\* the loaded catalog
read_value(result, key, instructions) ==
    LET eff_bytes == read_value_eff_bytes(result)
        data == read_value_data(result)
        convert_rate == instructions[key].convert_rate
        parts == chunks(data)
        signed_ok(n) == Len(parts) = n /\ \A k \in 1..n : int_ok(parts[k], 16)
        signed == [k \in 1..Len(parts) |-> hex_to_signed(parts[k])]
    IN  IF ~int_ok(eff_bytes, 10) THEN Raises("ValueError")
        ELSE IF key \notin DOMAIN instructions THEN Raises("KeyError")
        ELSE IF key = "1" THEN
            IF Len(parts) # 2 THEN Raises("ValueError")
            ELSE Quantities(<<"Temperature", "Humidity">>, signed, convert_rate)
        ELSE IF key \in DOMAIN SingleNames THEN
            IF ~int_ok(data, 16) THEN Raises("ValueError")
            ELSE Quantities(<<SingleNames[key]>>, <<hex_to_signed(data)>>,
                            convert_rate)
        ELSE IF key = "5" THEN
            IF Len(parts) # 3 THEN Raises("ValueError")
            ELSE Quantities(<<"Nitrogen", "Phosphorus", "Potassium">>, signed,
                            convert_rate)
        ELSE IF key = "8" THEN
            IF ~int_ok(data, 16) THEN Raises("ValueError")
            ELSE Raises("UnboundLocalError")     \* return {"Potassium" : n}
        ELSE ReturnsNone

-----------------------------------------------------------------------------
(* Responses handed to the decoder *)

\* payloads of the responses considered (0A 8C 00 FA is the specification's)
RespPayloads == { <<0, 100>>, <<128, 0>>, <<10, 140, 0, 250>> }

\* a response as a sensor sends it:
\* [address][function][byte_count][payload...][crc_lo][crc_hi]
Response(addr, payload) ==
    LET body == <<addr, 3, Len(payload)>> \o payload
    IN  body \o modbus_crc_16(body, "big")

\* further payloads for the decoder: 0x7FFF, three registers, and payloads of
\* 0x0A and 0x10 bytes
DecPayloads ==
    RespPayloads \cup
    { <<127, 255>>, <<0, 1, 0, 2, 255, 255>>,
      <<0, 1, 0, 2, 0, 3, 0, 4, 0, 5>>,
      <<0, 1, 0, 2, 0, 3, 0, 4, 0, 5, 0, 6, 0, 7, 0, 8>> }

\* a frame whose byte_count is not the number of payload bytes it carries
Miscounted(addr, declared, payload) ==
    LET body == <<addr, 3, declared>> \o payload
    IN  body \o modbus_crc_16(body, "big")

\* the request of read_SoilSensor.py lines 54-59, as a device echoes it
Request(addr, key) ==
    LET trig_hex == <<addr, 3>> \o FullCatalog[key].bytes
    IN  trig_hex \o modbus_crc_16(trig_hex, "big")

\* the frames handed to the decoder, each with what it is
DecFrames ==
    { [origin |-> "response", frame |-> Response(1, p)] : p \in DecPayloads }
    \cup { [origin |-> "miscounted", frame |-> Miscounted(1, 4, <<0, 100>>)],
           [origin |-> "miscounted", frame |-> Miscounted(1, 2, <<0, 100, 0, 7>>)] }
    \cup { [origin |-> "echo", frame |-> Request(a, k)] :
              a \in {1, 4}, k \in {"1", "2", "5"} }

\* the inst_type values the decoder is called with on a frame: the keys of
\* one quantity only where the number int(data, 16) yields stays below 2^31
DecKeys(frame) ==
    LET result == hex(frame)
        data == IF int_ok(read_value_eff_bytes(result), 10)
                THEN read_value_data(result) ELSE <<>>
    IN  IF Len(data) <= 7 \/ (Len(data) = 8 /\ data[1] < 8)
        THEN AllKeys \cup {"9"} ELSE {"1", "5", "9"}

\* what get_dev_id and read_value take out of result
DecNoLocals == [device_id |-> <<>>, parsed |-> FALSE, data |-> <<>>]
Locals(result) ==
    LET parsed == int_ok(read_value_eff_bytes(result), 10)
    IN  [device_id |-> get_dev_id(result), parsed |-> parsed,
         data |-> IF parsed THEN read_value_data(result) ELSE <<>>]

DecInit ==
    /\ \E f \in DecFrames : dec_frame = f.frame /\ dec_origin = f.origin
    /\ dec_key = "1"
    /\ dec_out = DecNotCalled
    /\ dec_locals = DecNoLocals
    /\ dec_tampered = FALSE

\* one bit of one payload byte of the response changes on the wire
Tamper ==
    /\ ~dec_tampered
    /\ dec_origin = "response"
    /\ \E p \in 4..(Len(dec_frame) - 2), b \in 0..7 :
          dec_frame' = [dec_frame EXCEPT ![p] = BitXor(@, 2 ^ b)]
    /\ dec_tampered' = TRUE
    /\ dec_out' = DecNotCalled
    /\ dec_locals' = DecNoLocals
    /\ UNCHANGED <<dec_key, dec_origin>>

\* what the polling loops do with received data (read_SoilSensors.py lines
\* 72-74, read_SoilSensor.py lines 63-65): read_value(data.hex(), inst_type)
Decode ==
    \E key \in DecKeys(dec_frame) :
        /\ dec_key' = key
        /\ dec_out' = read_value(hex(dec_frame), key, catalog)
        /\ dec_locals' = Locals(hex(dec_frame))
        /\ UNCHANGED <<dec_frame, dec_tampered, dec_origin>>

-----------------------------------------------------------------------------
(* The polling loops: read_soil_by_addr (read_SoilSensors.py lines 45-92)   *)
(* and the loop of read_SoilSensor.py (lines 52-74).  One action is one     *)
(* pass through the loop body, with the write and the read it makes on the  *)
(* link.                                                                    *)

\* map(str, range(1, 6))
KeyOrder == <<"1", "2", "3", "4", "5">>

\* range(4, 10) of read_SoilSensor.py
first_addr == 4
last_addr == 9

\* the variable `a`: a list or a bytearray of byte values
ListOf(b) == [type |-> "list", bytes |-> b]
BytearrayOf(b) == [type |-> "bytearray", bytes |-> b]

\* size of serial_device.read(size=13)
read_size == 13

\* which port calls of write(a) and of read(size=13) fail.  write: none, the
\* buffer reset, the port write with the reopen succeeding, the port write
\* with every reopen failing.  read: none, the port read, the buffer reset
\* after the read.
NoFail ==
    [resetFails |-> FALSE, writeFails |-> FALSE, readFails |-> FALSE,
     closeFails |-> FALSE, nfail |-> 0, arr |-> <<>>]
PollWriteChoices ==
    { NoFail, [NoFail EXCEPT !.resetFails = TRUE],
      [NoFail EXCEPT !.writeFails = TRUE],
      [NoFail EXCEPT !.writeFails = TRUE, !.nfail = MaxAttempts] }
PollReadChoices ==
    { NoFail, [NoFail EXCEPT !.readFails = TRUE],
      [NoFail EXCEPT !.resetFails = TRUE] }

\* a frame one payload bit of which changed on the wire: its trailing two
\* bytes are no longer the CRC of the bytes before them
Corrupted(f) == [f EXCEPT ![4] = BitXor(@, 1)]

\* what the sensor at an address answers to a request: nothing, a stray
\* byte, a response, or a response that reaches the port corrupted
PollReplies(addr) ==
    { <<>>, <<addr>>, Response(addr, <<0, 100>>),
      Response(addr, <<10, 140, 0, 250>>),
      Corrupted(Response(addr, <<0, 100>>)) }

\* an entry of the record of a pass: a call of write, a call of read of size
\* bytes with whether it returned data, a sleep
LogEntry(ev, key, size, data) ==
    [ev |-> ev, addr |-> poll_i, key |-> key, size |-> size, data |-> data]

\* the mutant of time_sleep: the loop goes on without sleeping
time_sleep_Skipped(log, key) == log

\* time.sleep(1) at the end of the loop body
time_sleep(log, key) == Append(log, LogEntry("sleep", key, 0, FALSE))

\* serial_device.write(a); data = serial_device.read(size=13); if data:
\* read_value(data.hex(), inst_type) (read_SoilSensors.py lines 69-75,
\* read_SoilSensor.py lines 60-65) on the link as it is.  m is the link after
\* the calls, status what the pass is in after them, write whether write
\* was called, sent whether the frame was written to the port, read whether
\* read was called, data whether read returned bytes, val what read_value
\* gave.
Exchange(frame, cw, reply, cr, updates) ==
    CHOOSE x \in UNION { UNION { {
        IF mw.exc # ""
        THEN [m |-> mw, status |-> mw.exc, sent |-> Has(mw.events, "write"),
              write |-> TRUE, read |-> FALSE, data |-> FALSE,
              val |-> DecNotCalled]
        ELSE IF mr.exc # ""
        THEN [m |-> mr, status |-> mr.exc, sent |-> Has(mw.events, "write"),
              write |-> TRUE, read |-> TRUE, data |-> FALSE,
              val |-> DecNotCalled]
        ELSE [m |-> mr, sent |-> Has(mw.events, "write"), write |-> TRUE,
              read |-> TRUE, data |-> mr.val.kind = "bytes", val |-> true_val,
              status |-> IF true_val.kind = "raise" THEN true_val.exc
                         ELSE IF true_val.kind = "None" /\ updates
                         THEN "TypeError"        \* collected_data.update(None)
                         ELSE "running"]
        : true_val \in
            { IF mw.exc = "" /\ mr.exc = "" /\ mr.val.kind = "bytes"
              THEN \* if data: true_val = read_value(data.hex(), inst_type)
                   CHOOSE v \in { read_value(h, inst_type, catalog) :
                                    h \in {hex(mr.val.data)} } : TRUE
              ELSE DecNotCalled } }
        : mr \in { _read([Return(mw, NoneVal) EXCEPT
                             !.inbuf = IF Has(mw.events, "write")
                                       THEN reply ELSE @],
                         read_size, TRUE, FALSE, cr) } }
        : mw \in { _write(Start, frame, TRUE, FALSE, FALSE, FALSE, cw) } }
      : TRUE

Sent(x, key, frame) ==
    IF x.sent
    THEN Append(poll_sent, [addr |-> poll_i, pos |-> poll_k, key |-> key,
                            frame |-> frame])
    ELSE poll_sent

\* the write and the read of one loop body, as the record of the pass has them
Logged(x, key) ==
    LET w == Append(poll_log, LogEntry("write", key, 0, FALSE))
    IN  IF ~x.write THEN poll_log
        ELSE IF x.read THEN Append(w, LogEntry("read", key, read_size, x.data))
        ELSE w

\* where in the loop body the KeyboardInterrupt of a Ctrl+C is raised: not at
\* all, before the body starts, inside write between the buffer reset and
\* the port write, between write and read, after the response was decoded
InterruptPoints == {"none", "boundary", "in_write", "after_write", "after_decode"}

\* the loop body up to the point where KeyboardInterrupt is raised in it
Interrupted(frame, reply, intr, updates) ==
    IF intr = "boundary"
    THEN [m |-> Start, status |-> "running", write |-> FALSE, sent |-> FALSE,
          read |-> FALSE, data |-> FALSE, val |-> DecNotCalled]
    ELSE IF intr = "in_write"
    THEN [m |-> ResetBuffers(Start, FALSE), status |-> "running",
          write |-> TRUE, sent |-> FALSE, read |-> FALSE, data |-> FALSE,
          val |-> DecNotCalled]
    ELSE IF intr = "after_write"
    THEN [m |-> [_write(Start, frame, TRUE, FALSE, FALSE, FALSE, NoFail)
                    EXCEPT !.inbuf = reply],
          status |-> "running", write |-> TRUE, sent |-> TRUE,
          read |-> FALSE, data |-> FALSE, val |-> DecNotCalled]
    ELSE Exchange(frame, NoFail, reply, NoFail, updates)

\* collected_data.update(true_val) (read_SoilSensors.py line 75); every
\* entry remembers the address whose response it was decoded from
dict_update(cd, true_val, addr) ==
    LET names == { true_val.fields[k][1] : k \in DOMAIN true_val.fields }
    IN  { e \in cd : e.name \notin names }
        \cup { [name |-> true_val.fields[k][1], raw |-> true_val.fields[k][2],
                rate |-> true_val.rate, addr |-> addr] :
                k \in DOMAIN true_val.fields }

\* collected_data after the loop body x of read_soil_by_addr
Collected(x) ==
    IF x.val.kind = "reading" THEN dict_update(collected_data, x.val, poll_i)
    ELSE collected_data

\* what the caller of the pass has while it runs, and the ways it can end:
\* with an exception, or by falling off the end of the function or script
Pending == [kind |-> "pending"]
Raised(e) == [kind |-> "raise", exc |-> e]

\* except KeyboardInterrupt: print(...); serial_device.disconnect()
\* (read_SoilSensors.py lines 89-92, read_SoilSensor.py lines 71-74), after
\* the part x of the loop body that ran
PollCancelled(x, key, a) ==
    \E closeFails \in When(~x.write, BOOLEAN, FALSE) :
        /\ Finish("poll", read_size, Return(disconnect(x.m, closeFails), NoneVal))
        /\ req_reset' = TRUE
        /\ poll_status' = "cancelled"
        /\ poll_ret' = NoneVal
        /\ poll_log' = Logged(x, key)
        /\ poll_sent' = Sent(x, key, a.bytes)
        /\ poll_a' = (IF x.write THEN a ELSE poll_a)
        /\ UNCHANGED <<poll_i, poll_k>>

\* SerialDevice.init_port(port_name=port_name, baudRate=9600, timeOut=2)
PollLinkInit ==
    /\ port_name = <<serial_prefix, "ttyUSB0">>
    /\ auto_reconnect = FALSE
    /\ verbose = FALSE
    /\ \E st \in PortSettings :
          /\ st.baudrate = 9600 /\ st.timeout = "2"
          /\ device = Serial(ToOpen(port_name), st)
    /\ device_error = "false"
    /\ attempts = 1
    /\ inbuf = <<>>
    /\ op = "init_port"
    /\ ret = LinkVal
    /\ events = <<>>
    /\ pre = [device |-> None, device_error |-> "unset"]
    /\ req_size = 0
    /\ req_reset = FALSE

\* the instruction keys get_inst() is asked for: one of each shape of
\* read_value (two quantities, one quantity, the branch that raises)
PollKeys == {"1", "2", "8"}

PollInit ==
    /\ catalog \in Catalogs
    /\ inst_type \in DOMAIN catalog \cap PollKeys
    /\ poll_script \in {"read_soil_by_addr", "read_SoilSensor"}
    /\ IF poll_script = "read_soil_by_addr"
       THEN poll_i = 1 /\ poll_end \in 1..(1 + MaxSpan)
       ELSE /\ poll_i = first_addr /\ poll_end = last_addr
            \* read_SoilSensor.py uses nothing of the catalog but the
            \* instruction get_inst() returned
            /\ catalog = FullCatalog
    /\ poll_k = 1
    /\ poll_a = ListOf(<<poll_i, 3>>)
    /\ poll_sent = <<>>
    /\ poll_log = <<>>
    /\ collected_data = {}
    /\ poll_ret = Pending
    /\ poll_status = "running"

\* one pass through the body of `for key in map(str, range(1, 6))`
PollByAddr ==
    /\ poll_script = "read_soil_by_addr"
    /\ poll_status = "running"
    /\ \E intr \in InterruptPoints :
        LET key == KeyOrder[poll_k]
            \* line 62: instructions['instructions']['bytes'] looks `bytes` up
            \* among the instruction keys
            lookup == IF key \notin DOMAIN catalog THEN "skip"
                      ELSE IF "bytes" \notin DOMAIN catalog THEN "KeyError"
                      ELSE "AttributeError"       \* a dict has no split()
            trig_hex == poll_a.bytes
            crc == modbus_crc_16_SoilSensors(trig_hex, "big")
        IN  IF intr = "boundary"
            THEN /\ PollCancelled(Interrupted(<<>>, <<>>, intr, TRUE), key, poll_a)
                 /\ UNCHANGED collected_data
            ELSE IF lookup # "skip"
            THEN /\ intr = "none"
                 /\ poll_status' = lookup
                 /\ poll_ret' = Raised(lookup)
                 /\ UNCHANGED <<poll_a, poll_sent, poll_log, collected_data,
                                linkVars, poll_i, poll_k>>
            ELSE \E a \in {BytearrayOf(trig_hex \o crc)} :
                 \E reply \in When(intr \in {"none", "after_decode"},
                                  PollReplies(poll_i), <<>>) :
                 IF intr # "none"
                 THEN \E x \in {Interrupted(a.bytes, reply, intr, TRUE)} :
                      /\ x.status = "running"
                      /\ PollCancelled(x, key, a)
                      /\ collected_data' = Collected(x)
                 ELSE
                 \E cw \in PollWriteChoices, cr \in PollReadChoices :
                 \E x \in {Exchange(a.bytes, cw, reply, cr, TRUE)} :
                 /\ Finish("poll", read_size, x.m)
                 /\ req_reset' = TRUE
                 /\ poll_sent' = Sent(x, key, a.bytes)
                 /\ poll_log' = Logged(x, key)
                 /\ poll_a' = a
                 /\ collected_data' = Collected(x)
                 \* line 81: datetime is the module, it has no now(), so the
                 \* pass ends here when nothing ended it before
                 /\ poll_status' = (IF x.status # "running" THEN x.status
                                    ELSE "AttributeError")
                 /\ poll_ret' = Raised(poll_status')
                 /\ UNCHANGED <<poll_i, poll_k>>
    /\ UNCHANGED <<catalog, inst_type, poll_script, poll_end>>

\* one pass through the body of `for i in range(4, 10)` of read_SoilSensor.py
PollSingle ==
    /\ poll_script = "read_SoilSensor"
    /\ poll_status = "running"
    /\ \E intr \in InterruptPoints :
        LET inst == catalog[inst_type].bytes
            trig_hex == <<poll_i, 3>> \o inst
            crc == modbus_crc_16(trig_hex, "big")
        IN  IF intr = "boundary"
            THEN PollCancelled(Interrupted(<<>>, <<>>, intr, FALSE), inst_type,
                               poll_a)
            ELSE
            \E a \in {BytearrayOf(trig_hex \o crc)} :
            \E reply \in When(intr \in {"none", "after_decode"},
                             PollReplies(poll_i), <<>>) :
            IF intr # "none"
            THEN \E x \in {Interrupted(a.bytes, reply, intr, FALSE)} :
                 /\ x.status = "running"
                 /\ PollCancelled(x, inst_type, a)
            ELSE
            \E cw \in PollWriteChoices, cr \in PollReadChoices :
            \E x \in {Exchange(a.bytes, cw, reply, cr, FALSE)} :
            /\ Finish("poll", read_size, x.m)
            /\ req_reset' = TRUE
            /\ poll_a' = a
            /\ poll_sent' = Sent(x, inst_type, a.bytes)
            /\ UNCHANGED poll_k
            /\ IF x.status # "running"
               THEN /\ poll_status' = x.status
                    /\ poll_ret' = Raised(x.status)
                    /\ poll_log' = Logged(x, inst_type)
                    /\ UNCHANGED poll_i
               ELSE /\ poll_log' = time_sleep(Logged(x, inst_type), inst_type)
                    /\ IF poll_i = poll_end
                       \* the script ends after the loop
                       THEN /\ poll_status' = "done" /\ poll_ret' = NoneVal
                            /\ UNCHANGED poll_i
                       ELSE /\ poll_status' = "running" /\ poll_ret' = Pending
                            /\ poll_i' = poll_i + 1
    /\ UNCHANGED <<catalog, inst_type, poll_script, poll_end, collected_data>>

-----------------------------------------------------------------------------
(* _read in force_timeout mode, one statement at a time.  Time passes while *)
(* the loop runs and while reconnect sleeps; the clock counts seconds.      *)

\* the largest force_timeout a call is given
MaxT == 2

\* the clock stops ticking here; reconnect's sleeps can carry it further
MaxClock == 4

\* time.sleep(2) of reconnect (lines 398 and 408), one before every
\* serial.Serial(...) it makes
reconnect_sleep == 2

TmoNotRunning ==
    [pc |-> "idle", size |-> 0, T |-> 0, start |-> 0, last |-> 0, exit |-> 0,
     returned |-> 0, got |-> NoneVal]

\* the call as it stands between two statements
Running == [Start EXCEPT !.events = events, !.attempts = attempts]

\* lines 317-340: the else clause of the try, ret being what the loop left
read_else(m, got, reset, c) ==
    IF m.verbose /\ got = NoneVal THEN Raise(m, "AttributeError")   \* line 319
    ELSE IF got # NoneVal /\ Len(got.data) > 0
    THEN IF reset
         THEN LET m2 == ResetBuffers(m, c.resetFails)
              IN  IF m2.exc # "" THEN m2
                  ELSE Return(m2, BytesVal(_decode(got.data)))
         ELSE Return(m, BytesVal(_decode(got.data)))
    ELSE _read_failed(m, c)

\* read(size, force_timeout=T) is called on a link that holds a port:
\* ret = None (line 298) and start = time.time() (line 301)
TmoCall ==
    /\ tmo.pc \in {"idle", "done"}
    /\ device.present
    /\ now + MaxT <= MaxClock
    /\ \E size \in 1..MaxSize, T \in 1..MaxT :
          /\ tmo' = [pc |-> "test", size |-> size, T |-> T, start |-> now,
                     last |-> now, exit |-> now, returned |-> now,
                     got |-> NoneVal]
          /\ req_size' = size
    /\ op' = "read"
    /\ ret' = Pending
    /\ events' = <<>>
    /\ attempts' = 0
    /\ pre' = [device |-> device, device_error |-> device_error]
    /\ req_reset' = TRUE
    /\ UNCHANGED <<device, device_error, port_name, auto_reconnect, verbose,
                   inbuf, now>>

\* line 302: while (time.time() - start) < force_timeout
TmoTest ==
    /\ tmo.pc = "test"
    /\ tmo' = IF now - tmo.start < tmo.T
              THEN [tmo EXCEPT !.pc = "avail", !.last = now]
              ELSE [tmo EXCEPT !.pc = "after", !.exit = now]
    /\ UNCHANGED <<linkVars, now>>

\* lines 304-308: if self._device.in_waiting >= size: ret = read(size); break.
\* A port call that raises is caught at line 313: the flag is set and the
\* function ends without a return statement.
TmoAvail ==
    /\ tmo.pc = "avail"
    /\ \E portFails \in BOOLEAN :
          IF portFails
          THEN /\ tmo' = [tmo EXCEPT !.pc = "done", !.exit = now,
                                     !.returned = now]
               /\ device_error' = "true"
               /\ events' = Append(events, "read_raise")
               /\ ret' = NoneVal
               /\ UNCHANGED inbuf
          ELSE IF Len(inbuf) >= tmo.size
          THEN \E r \in {PortRead(Running, tmo.size)} :
                  /\ tmo' = [tmo EXCEPT !.pc = "after", !.exit = now,
                                        !.got = r.val]
                  /\ inbuf' = r.inbuf
                  /\ events' = r.events
                  /\ UNCHANGED <<device_error, ret>>
          ELSE /\ tmo' = [tmo EXCEPT !.pc = "test"]
               /\ UNCHANGED <<device_error, events, ret, inbuf>>
    /\ UNCHANGED <<device, port_name, auto_reconnect, verbose, op, attempts,
                   pre, req_size, req_reset, now>>

\* lines 309-340: the loop is over; what the call gives back.  A reconnect
\* sleeps before each of its attempts to reopen the port.
TmoAfter ==
    /\ tmo.pc = "after"
    /\ \E resetFails \in When(tmo.got # NoneVal, BOOLEAN, FALSE),
          closeFails \in When(tmo.got = NoneVal /\ ~verbose /\ auto_reconnect
                                 /\ device_error = "true", BOOLEAN, FALSE),
          nfail \in When(tmo.got = NoneVal /\ ~verbose /\ auto_reconnect
                            /\ device_error = "true", NFails, 0) :
       \E r \in {read_else(Running, tmo.got, req_reset,
                           [resetFails |-> resetFails, closeFails |-> closeFails,
                            nfail |-> nfail])} :
          /\ Finish("read", tmo.size, r)
          /\ now' = now + reconnect_sleep * (r.attempts - attempts)
          /\ tmo' = [tmo EXCEPT !.pc = "done", !.returned = now']
    /\ UNCHANGED req_reset

\* a second goes by while the loop runs
Tick ==
    /\ tmo.pc \in {"test", "avail"}
    /\ now < MaxClock
    /\ now' = now + 1
    /\ UNCHANGED <<linkVars, tmo>>

\* a byte reaches the input buffer while the loop runs
TmoReceive ==
    /\ tmo.pc \in {"test", "avail"}
    /\ device.present
    /\ Len(inbuf) < MaxBuf
    /\ \E b \in LinkBytes : inbuf' = Append(inbuf, b)
    /\ UNCHANGED <<device, device_error, port_name, auto_reconnect, verbose,
                   op, ret, events, attempts, pre, req_size, req_reset, tmoVars>>

\* a link as __init__ leaves it, with the verbose argument either way
TmoLinkInit ==
    /\ port_name = <<"ttyUSB0">>
    /\ auto_reconnect \in BOOLEAN
    /\ verbose \in BOOLEAN
    /\ \E s \in PortSettings : device = Serial(ToOpen(port_name), s)
    /\ device_error = "false"
    /\ attempts = 1
    /\ inbuf = <<>>
    /\ op = "init_port"
    /\ ret = LinkVal
    /\ events = <<>>
    /\ pre = [device |-> None, device_error |-> "unset"]
    /\ req_size = 0
    /\ req_reset = FALSE

-----------------------------------------------------------------------------
(* _read_while one statement at a time, bytes arriving while it runs *)

\* the bytes of the accumulator the model keeps; what is read beyond them
\* is read all the same
MaxOut == 3

RwNotRunning == [pc |-> "idle", out |-> NoneVal, buffered |-> 0, reset |-> FALSE]

\* out += more, the record keeping the first MaxOut bytes
Accumulate(out, more) == BytesVal(Take(out.data \o more.data, MaxOut))

\* read_while(reset) is called on a link that holds a port: out = None
\* (line 363)
RwCall ==
    /\ rw.pc \in {"idle", "done"}
    /\ device.present
    /\ \E reset \in BOOLEAN :
          /\ rw' = [pc |-> "test", out |-> NoneVal, buffered |-> Len(inbuf),
                    reset |-> reset]
          /\ req_reset' = reset
    /\ op' = "read_while"
    /\ ret' = Pending
    /\ events' = <<>>
    /\ attempts' = 0
    /\ pre' = [device |-> device, device_error |-> device_error]
    /\ req_size' = 0
    /\ UNCHANGED <<device, device_error, port_name, auto_reconnect, verbose,
                   inbuf>>

\* line 364: while self._device.in_waiting
RwTest ==
    /\ rw.pc = "test"
    /\ rw' = [rw EXCEPT !.pc = IF Len(inbuf) > 0 THEN "read" ELSE "after"]
    /\ UNCHANGED linkVars

\* lines 365-368: out = self._read(1, ...) or out += self._read(1, ...)
RwRead ==
    /\ rw.pc = "read"
    /\ \E readFails \in BOOLEAN :
       \E r \in {_read(Start, 1, FALSE, FALSE,
                       [resetFails |-> FALSE, writeFails |-> FALSE,
                        readFails |-> readFails, closeFails |-> FALSE,
                        nfail |-> 0, arr |-> <<>>])} :
          /\ device' = r.device
          /\ device_error' = r.device_error
          /\ inbuf' = r.inbuf
          /\ events' = r.events
          /\ attempts' = r.attempts
          /\ IF rw.out # NoneVal /\ r.val = NoneVal
             THEN /\ rw' = [rw EXCEPT !.pc = "done"]       \* bytes += None
                  /\ ret' = [kind |-> "raise", exc |-> "TypeError"]
             ELSE /\ rw' = [rw EXCEPT !.pc = "test",
                                      !.out = IF rw.out = NoneVal THEN r.val
                                              ELSE Accumulate(rw.out, r.val)]
                  /\ UNCHANGED ret
    /\ UNCHANGED <<port_name, auto_reconnect, verbose, op, pre, req_size,
                   req_reset>>

\* lines 370-377: the loop is over; reset if asked, decode, return
RwAfter ==
    /\ rw.pc = "after"
    /\ \E resetFails \in When(rw.reset, BOOLEAN, FALSE) :
       \E z \in {IF rw.reset THEN ResetBuffers(Start, resetFails) ELSE Start} :
          /\ inbuf' = z.inbuf
          /\ events' = z.events
          /\ ret' = IF z.exc # "" THEN [kind |-> "raise", exc |-> z.exc]
                    ELSE IF rw.out = NoneVal THEN NoneVal     \* _decode(None)
                    ELSE BytesVal(_decode(rw.out.data))
    /\ rw' = [rw EXCEPT !.pc = "done"]
    /\ UNCHANGED <<device, device_error, port_name, auto_reconnect, verbose,
                   op, attempts, pre, req_size, req_reset>>

\* a byte reaches the input buffer, between two calls or while the loop runs
RwReceive ==
    /\ device.present
    /\ Len(inbuf) < MaxBuf
    /\ \E b \in LinkBytes : inbuf' = Append(inbuf, b)
    /\ UNCHANGED <<device, device_error, port_name, auto_reconnect, verbose,
                   op, ret, events, attempts, pre, req_size, req_reset, rw>>

-----------------------------------------------------------------------------
(* HIKROBOTCamera (src/lib/Cameras.py lines 304-514).  c carries the fields  *)
(* of the object, the driver calls of the running method and the exception  *)
(* in flight; whether a driver call fails is an input.                      *)

\* trials of _reconnect(self, trials=3, sleep=2)
cam_trials == 3

CamStart ==
    [cam |-> cam, connected |-> cam_connected, streaming |-> cam_streaming,
     testing |-> cam_testing, retry |-> cam_retry,
     load_settings |-> cam_load_settings, calls |-> <<>>, exc |-> FALSE]

CamCall(c, e) == [c EXCEPT !.calls = Append(@, e)]

\* _connect (lines 366-390)
cam_connect(c, fails) ==
    IF c.testing \/ c.connected THEN c
    ELSE IF fails
    THEN [CamCall(c, "init_raise") EXCEPT !.cam = FALSE, !.connected = FALSE,
                                          !.streaming = FALSE, !.exc = TRUE]
    ELSE [CamCall(c, "init") EXCEPT !.cam = TRUE, !.connected = TRUE,
                                    !.streaming = FALSE]

\* _stop (lines 496-514); None.stop() raises like a driver failure
cam_stop(c, fails) ==
    IF c.testing \/ ~c.streaming THEN c
    ELSE IF ~c.cam THEN [c EXCEPT !.exc = TRUE]
    ELSE IF fails THEN [CamCall(c, "stop_raise") EXCEPT !.exc = TRUE]
    ELSE [CamCall(c, "stop") EXCEPT !.streaming = FALSE]

\* _close (lines 392-413); None.close() raises like a driver failure
cam_close(c, stopFails, closeFails) ==
    IF c.testing THEN c
    ELSE LET c1 == cam_stop(c, stopFails)
         IN  IF c1.exc THEN c1
             ELSE IF ~c1.cam THEN [c1 EXCEPT !.exc = TRUE]
             ELSE IF closeFails THEN [CamCall(c1, "close_raise") EXCEPT !.exc = TRUE]
             ELSE [CamCall(c1, "close") EXCEPT !.cam = FALSE,
                                               !.streaming = FALSE,
                                               !.connected = FALSE]

\* _user_settings (lines 428-438): driver calls on self.cam, which change no
\* field of the object
cam_user_settings(c, fails) ==
    IF ~c.cam THEN [c EXCEPT !.exc = TRUE]
    ELSE IF fails THEN [CamCall(c, "settings_raise") EXCEPT !.exc = TRUE]
    ELSE CamCall(c, "settings")

\* _initialize (lines 415-426): _connect, then the user settings if asked
cam_initialize(c, connectFails, settingsFail) ==
    IF c.testing THEN c
    ELSE LET c1 == cam_connect(c, connectFails)
         IN  IF c1.exc THEN c1
             ELSE IF c1.connected /\ c1.load_settings
             THEN cam_user_settings(c1, settingsFail)
             ELSE c1

\* what the driver does in one attempt of _reconnect
AttemptChoices == {"close_raise", "init_raise", "settings_raise", "ok"}

\* _attempt of _reconnect (lines 450-458): close, sleep, initialize; every
\* exception is swallowed
cam_attempt(c, choice) ==
    LET c1 == cam_close(c, FALSE, choice = "close_raise")
        c2 == IF c1.exc THEN c1
              ELSE cam_initialize(c1, choice = "init_raise",
                                  choice = "settings_raise")
    IN  [c2 EXCEPT !.exc = FALSE]

RECURSIVE cam_reconnect(_, _, _)
\* _reconnect (lines 440-467): while (not self._connected) and j > 0
cam_reconnect(c, j, choices) ==
    IF c.connected \/ j = 0 THEN c
    ELSE cam_reconnect(cam_attempt(c, choices[cam_trials - j + 1]), j - 1,
                       choices)

\* _stream (lines 469-494); None.stream() raises like a driver failure
cam_stream(c, fails, choices) ==
    IF c.testing \/ c.streaming THEN c
    ELSE IF fails \/ ~c.cam
    THEN LET c1 == [(IF c.cam THEN CamCall(c, "stream_raise") ELSE c)
                       EXCEPT !.streaming = FALSE, !.connected = FALSE]
         IN  IF c.retry THEN cam_reconnect(c1, cam_trials, choices)
             ELSE [c1 EXCEPT !.exc = TRUE]
    ELSE [CamCall(c, "stream") EXCEPT !.streaming = TRUE]

\* _capture_one (lines 516-549): a frame while streaming, else None;
\* None.capture() raises like a driver failure
cam_capture_one(c, fails) ==
    IF c.testing \/ ~c.streaming THEN c
    ELSE IF ~c.cam THEN [c EXCEPT !.exc = TRUE]
    ELSE IF fails THEN [CamCall(c, "capture_raise") EXCEPT !.exc = TRUE]
    ELSE CamCall(c, "capture")

\* the method ends: the object keeps what the call left in it
CamFinish(name, c) ==
    /\ cam' = c.cam
    /\ cam_connected' = c.connected
    /\ cam_streaming' = c.streaming
    /\ cam_op' = name
    /\ cam_ret' = IF c.exc THEN "raise" ELSE "ok"
    /\ cam_calls' = c.calls
    /\ UNCHANGED <<cam_testing, cam_retry, cam_load_settings>>

\* HIKROBOTCamera(ip_addr, load_settings, retry, testing): Camera.__init__
\* (lines 42-80) calls _initialize; a construction whose _initialize raises
\* gives no object
CamInit ==
    /\ cam_testing \in BOOLEAN
    /\ cam_retry \in BOOLEAN
    /\ cam_load_settings \in BOOLEAN
    /\ cam = ~cam_testing
    /\ cam_connected = ~cam_testing
    /\ cam_streaming = FALSE
    /\ cam_op = "init"
    /\ cam_ret = "ok"
    /\ cam_calls = IF cam_testing THEN <<>>
                   ELSE IF cam_load_settings THEN <<"init", "settings">>
                   ELSE <<"init">>

\* connect()
CamConnect ==
    \E fails \in When(~cam_testing /\ ~cam_connected, BOOLEAN, FALSE) :
        CamFinish("connect", cam_connect(CamStart, fails))

\* stream()
CamStream ==
    \E fails \in When(~cam_testing /\ ~cam_streaming /\ cam, BOOLEAN, FALSE) :
    \E choices \in When(~cam_testing /\ ~cam_streaming /\ (fails \/ ~cam)
                           /\ cam_retry,
                        [1..cam_trials -> AttemptChoices],
                        [k \in 1..cam_trials |-> "ok"]) :
        CamFinish("stream", cam_stream(CamStart, fails, choices))

\* initialize()
CamInitialize ==
    \E fails \in When(~cam_testing /\ ~cam_connected, BOOLEAN, FALSE) :
    \E settingsFail \in When(~cam_testing /\ ~fails /\ cam_load_settings,
                             BOOLEAN, FALSE) :
        CamFinish("initialize", cam_initialize(CamStart, fails, settingsFail))

\* capture_one()
CamCapture ==
    \E fails \in When(~cam_testing /\ cam_streaming /\ cam, BOOLEAN, FALSE) :
        CamFinish("capture_one", cam_capture_one(CamStart, fails))

\* stop()
CamStop ==
    \E fails \in When(~cam_testing /\ cam_streaming /\ cam, BOOLEAN, FALSE) :
        CamFinish("stop", cam_stop(CamStart, fails))

\* close()
CamClose ==
    \E stopFails \in When(~cam_testing /\ cam_streaming /\ cam, BOOLEAN, FALSE) :
    \E closeFails \in When(~cam_testing /\ cam /\ ~stopFails, BOOLEAN, FALSE) :
        CamFinish("close", cam_close(CamStart, stopFails, closeFails))

-----------------------------------------------------------------------------
(* add_new_record (src/db_connect.py lines 47-72).  A document id is a      *)
(* string, kept as the sequence of its characters; the Data collection of   *)
(* the sensor maps the ids of its documents to what they hold.              *)

\* calls of add_new_record in one behaviour
MaxCalls == 2

DocDigits == <<"0", "1", "2", "3", "4", "5", "6", "7", "8", "9">>

IsDigit(ch) == \E d \in 1..10 : DocDigits[d] = ch
DigitValue(ch) == (CHOOSE d \in 1..10 : DocDigits[d] = ch) - 1

RECURSIVE digits_int(_)
\* the value of a run of decimal digits
digits_int(t) ==
    IF t = <<>> THEN 0
    ELSE digits_int(SubSeq(t, 1, Len(t) - 1)) * 10 + DigitValue(t[Len(t)])

\* the digits of an id after its sign, if it has one
Unsigned(id) ==
    IF id # <<>> /\ id[1] \in {"-", "+"} THEN Tail(id) ELSE id

\* int(doc.id) succeeds: an optional sign and at least one digit; anything
\* else raises ValueError
doc_int_ok(id) ==
    Unsigned(id) # <<>> /\ \A k \in 1..Len(Unsigned(id)) : IsDigit(Unsigned(id)[k])

\* int(doc.id)
doc_int(id) ==
    IF id[1] = "-" THEN 0 - digits_int(Unsigned(id)) ELSE digits_int(Unsigned(id))

RECURSIVE str_nat(_)
\* str(n) for n >= 0
str_nat(n) ==
    IF n < 10 THEN <<DocDigits[n + 1]>>
    ELSE Append(str_nat(n \div 10), DocDigits[(n % 10) + 1])

\* the mutant of latest_record_number: the number of documents
latest_record_number_Count(docs) == Cardinality(DOMAIN docs)

\* lines 57-64: latest_record_number starts at 0 and is raised to every
\* int(doc.id) above it; ids int() rejects are passed over
latest_record_number(docs) ==
    LET nums == { doc_int(id) : id \in { i \in DOMAIN docs : doc_int_ok(i) } } \cup {0}
    IN  CHOOSE n \in nums : \A x \in nums : x <= n

\* lines 66-72: the id the record is written to
new_record_id(docs) == str_nat(latest_record_number(docs) + 1)

\* new_doc_ref.set({...}): creates the document or replaces what it holds
doc_set(docs, id, data) ==
    [i \in DOMAIN docs \cup {id} |-> IF i = id THEN data ELSE docs[i]]

\* ids of documents the Data collection can hold before the first call
InitialIds ==
    { <<"1">>, <<"2">>, <<"0", "7">>, <<"1", "0">>, <<"-", "5">>, <<"a">> }

\* a sensor whose Data collection holds any of the documents
DbInit ==
    /\ \E ids \in SUBSET InitialIds : db_data = [i \in ids |-> "old"]
    /\ db_active \in BOOLEAN
    /\ db_pre = <<>>
    /\ db_new = <<>>
    /\ db_calls = 0

\* add_new_record(sensor_name, sensor_id, data)
AddNewRecord ==
    /\ db_calls < MaxCalls
    /\ db_active' = TRUE
    /\ db_pre' = db_data
    /\ db_new' = new_record_id(db_data)
    /\ db_data' = doc_set(db_data, db_new', [record |-> db_calls + 1])
    /\ db_calls' = db_calls + 1

-----------------------------------------------------------------------------
(* Idle values of the parts a specification does not exercise *)

CrcIdle == crc_data = <<>> /\ crc_endian = "big" /\ crc_out = CrcNotCalled
DecIdle == dec_frame = <<>> /\ dec_key = "1" /\ dec_out = DecNotCalled
           /\ dec_tampered = FALSE /\ dec_origin = "response"
           /\ dec_locals = DecNoLocals
PollIdle == /\ catalog = FullCatalog /\ inst_type = "1"
            /\ poll_script = "idle" /\ poll_i = 0 /\ poll_end = 0 /\ poll_k = 0
            /\ poll_a = <<>> /\ poll_sent = <<>> /\ poll_log = <<>>
            /\ collected_data = {} /\ poll_ret = [kind |-> "pending"]
            /\ poll_status = "idle"
TmoIdle == now = 0 /\ tmo = TmoNotRunning
RwIdle == rw = RwNotRunning
CamIdle == /\ cam = FALSE /\ cam_connected = FALSE /\ cam_streaming = FALSE
           /\ cam_testing = TRUE /\ cam_retry = FALSE
           /\ cam_load_settings = FALSE /\ cam_op = "idle"
           /\ cam_ret = "ok" /\ cam_calls = <<>>
DbIdle == /\ db_data = <<>> /\ db_active = FALSE /\ db_pre = <<>>
          /\ db_new = <<>> /\ db_calls = 0
LinkIdle == /\ device = None /\ device_error = "unset" /\ port_name = <<>>
            /\ auto_reconnect = FALSE /\ verbose = FALSE /\ inbuf = <<>>
            /\ op = "idle" /\ ret = NoneVal /\ events = <<>> /\ attempts = 0
            /\ pre = [device |-> None, device_error |-> "unset"] /\ req_size = 0
            /\ req_reset = FALSE

-----------------------------------------------------------------------------
(* The transport *)

Init == LinkInit /\ CrcIdle /\ DecIdle /\ PollIdle /\ TmoIdle /\ RwIdle /\ CamIdle /\ DbIdle

Next ==
    \/ Write /\ UNCHANGED <<crcVars, decVars, pollVars, tmoVars, rwVars, camVars, dbVars>>
    \/ Read /\ UNCHANGED <<crcVars, decVars, pollVars, tmoVars, rwVars, camVars, dbVars>>
    \/ WriteRead /\ UNCHANGED <<crcVars, decVars, pollVars, tmoVars, rwVars, camVars, dbVars>>
    \/ Reconnect /\ UNCHANGED <<crcVars, decVars, pollVars, tmoVars, rwVars, camVars, dbVars>>
    \/ Disconnect /\ UNCHANGED <<crcVars, decVars, pollVars, tmoVars, rwVars, camVars, dbVars>>
    \/ SetAutoReconnect /\ UNCHANGED <<crcVars, decVars, pollVars, tmoVars, rwVars, camVars, dbVars>>
    \/ Receive /\ UNCHANGED <<crcVars, decVars, pollVars, tmoVars, rwVars, camVars, dbVars>>
    \/ Connect /\ UNCHANGED <<crcVars, decVars, pollVars, tmoVars, rwVars, camVars, dbVars>>
    \/ InitPort /\ UNCHANGED <<crcVars, decVars, pollVars, tmoVars, rwVars, camVars, dbVars>>
    \/ ReadWhile /\ UNCHANGED <<crcVars, decVars, pollVars, tmoVars, rwVars, camVars, dbVars>>

Spec == Init /\ [][Next]_vars

-----------------------------------------------------------------------------
(* The checksum *)

InitCrc == CrcInit /\ LinkIdle /\ DecIdle /\ PollIdle /\ TmoIdle /\ RwIdle /\ CamIdle /\ DbIdle

NextCrc == CrcCall /\ UNCHANGED <<linkVars, decVars, pollVars, tmoVars, rwVars, camVars, dbVars>>

SpecCrc == InitCrc /\ [][NextCrc]_vars

-----------------------------------------------------------------------------
(* The decoder *)

InitDecode == DecInit /\ LinkIdle /\ CrcIdle /\ PollIdle /\ TmoIdle /\ RwIdle /\ CamIdle /\ DbIdle

NextDecode ==
    \/ Tamper /\ UNCHANGED <<linkVars, crcVars, pollVars, tmoVars, rwVars, camVars, dbVars>>
    \/ Decode /\ UNCHANGED <<linkVars, crcVars, pollVars, tmoVars, rwVars, camVars, dbVars>>

SpecDecode == InitDecode /\ [][NextDecode]_vars

-----------------------------------------------------------------------------
(* The polling loops *)

InitPoll == PollInit /\ PollLinkInit /\ CrcIdle /\ DecIdle /\ TmoIdle /\ RwIdle /\ CamIdle /\ DbIdle

NextPoll ==
    \/ PollByAddr /\ UNCHANGED <<crcVars, decVars, tmoVars, rwVars, camVars, dbVars>>
    \/ PollSingle /\ UNCHANGED <<crcVars, decVars, tmoVars, rwVars, camVars, dbVars>>

SpecPoll == InitPoll /\ [][NextPoll]_vars

-----------------------------------------------------------------------------
(* The read in force_timeout mode *)

InitTimeout == TmoLinkInit /\ TmoIdle /\ RwIdle /\ CamIdle /\ DbIdle /\ CrcIdle /\ DecIdle /\ PollIdle

NextTimeout ==
    \/ TmoCall /\ UNCHANGED <<crcVars, decVars, pollVars, rwVars, camVars, dbVars>>
    \/ TmoTest /\ UNCHANGED <<crcVars, decVars, pollVars, rwVars, camVars, dbVars>>
    \/ TmoAvail /\ UNCHANGED <<crcVars, decVars, pollVars, rwVars, camVars, dbVars>>
    \/ TmoAfter /\ UNCHANGED <<crcVars, decVars, pollVars, rwVars, camVars, dbVars>>
    \/ Tick /\ UNCHANGED <<crcVars, decVars, pollVars, rwVars, camVars, dbVars>>
    \/ TmoReceive /\ UNCHANGED <<crcVars, decVars, pollVars, rwVars, camVars, dbVars>>

SpecTimeout == InitTimeout /\ [][NextTimeout]_vars

-----------------------------------------------------------------------------
(* read_while against a device that keeps sending *)

InitReadWhile ==
    TmoLinkInit /\ ~verbose /\ TmoIdle /\ RwIdle /\ CamIdle /\ DbIdle /\ CrcIdle /\ DecIdle /\ PollIdle

NextReadWhile ==
    \/ RwCall /\ UNCHANGED <<crcVars, decVars, pollVars, tmoVars, camVars, dbVars>>
    \/ RwTest /\ UNCHANGED <<crcVars, decVars, pollVars, tmoVars, camVars, dbVars>>
    \/ RwRead /\ UNCHANGED <<crcVars, decVars, pollVars, tmoVars, camVars, dbVars>>
    \/ RwAfter /\ UNCHANGED <<crcVars, decVars, pollVars, tmoVars, camVars, dbVars>>
    \/ RwReceive /\ UNCHANGED <<crcVars, decVars, pollVars, tmoVars, camVars, dbVars>>

\* the statements of a call that has started are executed; nothing is
\* assumed of the device or of the caller
RwProgress ==
    WF_vars((RwTest \/ RwRead \/ RwAfter)
            /\ UNCHANGED <<crcVars, decVars, pollVars, tmoVars, camVars, dbVars>>)

SpecReadWhile == InitReadWhile /\ [][NextReadWhile]_vars /\ RwProgress

-----------------------------------------------------------------------------
(* The HIKROBOT camera *)

InitCamera ==
    CamInit /\ LinkIdle /\ CrcIdle /\ DecIdle /\ PollIdle /\ TmoIdle /\ RwIdle
    /\ DbIdle

NextCamera ==
    \/ CamConnect /\ UNCHANGED <<linkVars, crcVars, decVars, pollVars, tmoVars, rwVars, dbVars>>
    \/ CamStream /\ UNCHANGED <<linkVars, crcVars, decVars, pollVars, tmoVars, rwVars, dbVars>>
    \/ CamStop /\ UNCHANGED <<linkVars, crcVars, decVars, pollVars, tmoVars, rwVars, dbVars>>
    \/ CamClose /\ UNCHANGED <<linkVars, crcVars, decVars, pollVars, tmoVars, rwVars, dbVars>>
    \/ CamInitialize /\ UNCHANGED <<linkVars, crcVars, decVars, pollVars, tmoVars, rwVars, dbVars>>
    \/ CamCapture /\ UNCHANGED <<linkVars, crcVars, decVars, pollVars, tmoVars, rwVars, dbVars>>

SpecCamera == InitCamera /\ [][NextCamera]_vars

-----------------------------------------------------------------------------
(* The record store *)

InitDb ==
    DbInit /\ LinkIdle /\ CrcIdle /\ DecIdle /\ PollIdle /\ TmoIdle /\ RwIdle
    /\ CamIdle

NextDb ==
    AddNewRecord /\ UNCHANGED <<linkVars, crcVars, decVars, pollVars, tmoVars, rwVars, camVars>>

SpecDb == InitDb /\ [][NextDb]_vars

-----------------------------------------------------------------------------
(* Properties of the transport *)

\* a call of the port's read
IsPortRead(e) == e = "read"

\* the call reopened the port
Reopened == Has(events, "open")

\* the call tried to reopen the port and no attempt succeeded
ReopenFailed == Has(events, "open_raise") /\ ~Has(events, "open")

\* the call closed the port or tried to reopen it: it ran reconnect
RanReconnect == attempts > 0 \/ Has(events, "close") \/ Has(events, "close_raise")

\* C1 (as claimed): when every reopen attempt fails, reconnect makes exactly
\* `trials` (3) attempts, returns None instead of raising and leaves the link
\* without a port.
C1_ReconnectExhaustion ==
    (op = "reconnect" /\ pre.device.present /\ ReopenFailed)
        => (attempts = trials /\ ret = NoneVal /\ device = None)

\* C2 (as claimed): when the port's write raises, write sets the fault flag,
\* returns to its caller without raising and runs no reconnect of its own.
C2_WriteFailureContained ==
    (op = "write" /\ Has(events, "write_raise"))
        => (ret.kind # "raise" /\ device_error = "true" /\ ~RanReconnect)

\* C3 (as claimed): every port exception during a write or read on an open
\* link sets the fault flag (it stays set unless the same call reopens the
\* port); the flag is cleared only by a call that reopens the port; a failed
\* reopen leaves the link without a port and the failure reaches the caller.
C3_LinkTransitions ==
    [][ /\ ( /\ op' \in {"write", "read"}
             /\ pre'.device.present
             /\ \/ Has(events', "write_raise")
                \/ Has(events', "read_raise")
                \/ Has(events', "reset_raise") )
            => (device_error' = "true" \/ Has(events', "open"))
        /\ (device_error = "true" /\ device_error' # "true")
            => Has(events', "open")
        /\ (Has(events', "open_raise") /\ ~Has(events', "open"))
            => (device' = None /\ ret'.kind = "raise")
      ]_vars

\* C4: after a reconnect that succeeds (called directly, or run by write or
\* read) the link holds an open port, the fault flag is cleared, and the
\* port's name, baud rate, parity, stop bits, byte size and timeout are those
\* it had when the call started.
C4_ReconnectKeepsParameters ==
    (op \in {"reconnect", "write", "read"} /\ Reopened)
        => /\ device.present
           /\ device_error = "false"
           /\ device = pre.device
           /\ (op = "reconnect" => ret = TrueVal)

\* C4 witness: a faulted link with the non-default settings was reconnected
C4_Witness ==
    /\ op = "reconnect" /\ ret = TrueVal
    /\ pre.device_error = "true"
    /\ device.baudrate = 19200 /\ device.timeout = "None"
    /\ device.port = <<serial_prefix, "ttyUSB0">>

\* C5 (as claimed): a read that returns data returns exactly `size` bytes.
C5_ReadExactSize ==
    (op = "read" /\ ret.kind = "bytes") => Len(ret.data) = req_size

\* C6 (as claimed): when the port's write raises inside write_read, no read
\* is issued on the port.
C6_NoReadAfterFailedWrite ==
    (op = "write_read" /\ Has(events, "write_raise"))
        => (~Has(events, "read") /\ ~Has(events, "read_raise"))

\* C25: close never raises and always releases the port: after disconnect
\* returns the link holds no device, whether the port's close succeeded or
\* raised, and whether the link was open or faulted.
C25_CloseReleases ==
    (op = "disconnect") => (ret = NoneVal /\ device = None)

\* C25 witness: the port of a faulted link raised on close
C25_Witness ==
    /\ op = "disconnect"
    /\ pre.device.present
    /\ pre.device_error = "true"
    /\ Has(events, "close_raise")
    /\ device = None

\* C26: the link has no terminal state: a link without a port (after
\* disconnect, after a reconnect that failed) is brought back to Open by
\* connect or reconnect when the port can be opened.
C26_NoTerminalState ==
    (/\ op \in {"connect", "reconnect"}
     /\ ~pre.device.present
     /\ ~Has(events, "open_raise"))
    => device.present

\* C27: init_port has exactly two outcomes: it returns a link that is open,
\* not faulted, with its buffers cleared, or it raises; it never returns
\* anything else (such as None) after serial.Serial failed.
C27_OpenTwoOutcomes ==
    (op = "init_port" /\ attempts = 1)
    => \/ ret.kind = "raise"
       \/ /\ ret = LinkVal
          /\ device.present
          /\ device_error = "false"
          /\ inbuf = <<>>

\* C28: after a read that returned data with reset on, the input buffer is
\* empty; with reset off the bytes beyond the requested size remain; a read
\* that returned nothing (a failure or a timeout) leaves the buffer as it was.
C28_ReadBufferEffect ==
    [][ (op' = "read" /\ device.present)
        => /\ (ret'.kind = "bytes" /\ req_reset') => inbuf' = <<>>
           /\ (ret'.kind = "bytes" /\ ~req_reset')
                 => inbuf' = Drop(inbuf, req_size')
           /\ (ret' = NoneVal) => inbuf' = inbuf
      ]_vars

\* C28 (amended): as C28, except that a read that returned nothing leaves the
\* buffer as it was only when it ran no reconnect; the reconnect of a faulted
\* link with auto_reconnect on reopens the port with an empty buffer.
C28_ReadBufferEffectUnlessReconnect ==
    [][ (op' = "read" /\ device.present)
        => /\ (ret'.kind = "bytes" /\ req_reset') => inbuf' = <<>>
           /\ (ret'.kind = "bytes" /\ ~req_reset')
                 => inbuf' = Drop(inbuf, req_size')
           /\ (ret' = NoneVal)
                 => inbuf' = (IF Has(events', "close") \/ Has(events', "close_raise")
                              THEN <<>> ELSE inbuf)
      ]_vars

\* C28 witness: a read with reset off returned its bytes and a stray byte
\* stayed in the buffer
C28_Witness ==
    /\ op = "read"
    /\ ~req_reset
    /\ ret.kind = "bytes"
    /\ Len(ret.data) = req_size
    /\ inbuf # <<>>

\* C30: read_while returns exactly the bytes that were buffered when it was
\* called, in arrival order, and leaves none of them in the buffer; with an
\* empty buffer it returns the empty result (None) without error.
C30_ReadWhileDrains ==
    [][ (/\ op' = "read_while"
         /\ device.present
         /\ ~Has(events', "read_raise") /\ ~Has(events', "reset_raise"))
        => /\ ret' = (IF inbuf = <<>> THEN NoneVal ELSE BytesVal(inbuf))
           /\ inbuf' = <<>>
           /\ Len(SelectSeq(events', IsPortRead)) = Len(inbuf)
      ]_vars

-----------------------------------------------------------------------------
(* Properties of the checksum *)

\* The reference CRC-16/MODBUS as a 16-stage shift register: the register is
\* the set of its stages that hold 1 (stage i is bit i). A byte is XORed into
\* stages 0..7; at each of 8 shifts the bit leaving stage 0 decides whether
\* the taps of 0xA001 (stages 15, 13 and 0) are inverted.
RefTaps == {0, 13, 15}

RefBit(n, i) == (n \div (2 ^ i)) % 2

RefXorByte(reg, byte) ==
    {i \in 0..15 : (i \in reg) # (i < 8 /\ RefBit(byte, i) = 1)}

RefShift(reg) ==
    LET sh == {i \in 0..14 : (i + 1) \in reg}
    IN  IF 0 \in reg THEN {i \in 0..15 : (i \in sh) # (i \in RefTaps)} ELSE sh

RECURSIVE RefShifts(_, _)
RefShifts(reg, n) ==
    IF n = 0 THEN reg
    ELSE CHOOSE r \in { RefShifts(s, n - 1) : s \in {RefShift(reg)} } : TRUE

RECURSIVE RefRegister(_, _, _)
RefRegister(reg, data, k) ==
    IF k > Len(data) THEN reg
    ELSE CHOOSE r \in { RefRegister(s, data, k + 1) :
                          s \in {RefShifts(RefXorByte(reg, data[k]), 8)} } : TRUE

RECURSIVE RefValue(_, _)
RefValue(reg, i) ==
    IF i > 15 THEN 0
    ELSE (IF i \in reg THEN 2 ^ i ELSE 0) + RefValue(reg, i + 1)

RefCrc16(data) == RefValue(RefRegister(0..15, data, 1), 0)

\* C9: for every byte sequence the two bytes modbus_crc_16 returns are bytes
\* (0..255) and together are the reference Modbus CRC-16 of the sequence, a
\* value within 0..0xFFFF; the reference vector 01 03 00 13 00 01 gives
\* 75 CF in "big" mode and CF 75 in "little" mode.
C9_CrcIsModbus ==
    LET r == RefCrc16(crc_data)
    IN  /\ r \in 0..65535
        /\ crc_out["big"] # <<>> =>
              \A k \in 1..3 :
                 /\ crc_out["big"][k][1] \in 0..255
                 /\ crc_out["big"][k][2] \in 0..255
                 /\ crc_out["big"][k][1] + 256 * crc_out["big"][k][2] = r
                 /\ crc_data = ReferenceVector => crc_out["big"][k] = <<117, 207>>
        /\ crc_out["little"] # <<>> =>
              \A k \in 1..3 :
                 /\ crc_out["little"][k][1] \in 0..255
                 /\ crc_out["little"][k][2] \in 0..255
                 /\ 256 * crc_out["little"][k][1] + crc_out["little"][k][2] = r
                 /\ crc_data = ReferenceVector => crc_out["little"][k] = <<207, 117>>

\* C9 witness: the checksum of the reference vector was computed in both modes
C9_Witness ==
    /\ crc_data = ReferenceVector
    /\ crc_out["big"] # <<>>
    /\ crc_out["little"] # <<>>

\* C10: "big" returns (low byte, high byte) of the CRC, "little" returns
\* (high byte, low byte), so "little" is "big" with its bytes swapped; the
\* three copies of the function return the same pair.
C10_EndianSwap ==
    (crc_out["big"] # <<>> /\ crc_out["little"] # <<>>) =>
        LET r == RefCrc16(crc_data)
        IN  \A k \in 1..3 :
               /\ crc_out["big"][k] = <<r % 256, r \div 256>>
               /\ crc_out["little"][k] = <<crc_out["big"][k][2], crc_out["big"][k][1]>>
               /\ crc_out["big"][k] = crc_out["big"][1]
               /\ crc_out["little"][k] = crc_out["little"][1]

\* C10 witness: both modes were called on a sequence whose checksum bytes differ
C10_Witness ==
    /\ crc_out["big"] # <<>>
    /\ crc_out["little"] # <<>>
    /\ Len(crc_data) >= 2
    /\ crc_out["big"][1][1] # crc_out["big"][1][2]
    /\ crc_out["little"][3] = <<crc_out["big"][3][2], crc_out["big"][3][1]>>

\* C38: for every byte sequence d, d followed by the two "big"-mode CRC bytes
\* of d is a sequence whose CRC-16 is zero, for each copy of modbus_crc_16:
\* a receiver validates the frame `trig_hex + bytearray(crc)` by computing
\* the CRC over the whole of it.
C38_CrcResidueZero ==
    crc_out["big"] # <<>> =>
        \A k \in 1..3 : RefCrc16(crc_data \o crc_out["big"][k]) = 0

\* C38 witness: the checksum of a sequence of the longest kind was appended
\* to it, and is not zero itself
C38_Witness ==
    /\ crc_out["big"] # <<>>
    /\ Len(crc_data) >= MaxCrcLen
    /\ crc_out["big"][1] # <<0, 0>>
    /\ RefCrc16(crc_data \o crc_out["big"][1]) = 0

-----------------------------------------------------------------------------
(* Properties of the decoder *)

\* C7: a response that carried a correct CRC and then had one payload bit
\* flipped is never decoded into a Reading: decoding it reports
\* ChecksumMismatch.
C7_TamperRejected ==
    (dec_tampered /\ dec_out.kind # "idle")
        => (dec_out.kind = "raise" /\ dec_out.exc = "ChecksumMismatch")

\* the frame was decoded
Decoded == dec_out.kind # "idle"

\* the payload of a frame: what lies between offset 3 and the CRC
PayloadOf(frame) == SubSeq(frame, 4, Len(frame) - 2)

\* 16-bit field k of a payload, big-endian, and its two's-complement value
Word(payload, k) == 256 * payload[2 * k - 1] + payload[2 * k]
Signed16(v) == IF v < 32768 THEN v ELSE v - 65536

\* the response carries as many registers as the key asks for
WellFormedFor(key) ==
    /\ dec_origin = "response"
    /\ key \in AllKeys
    /\ Len(PayloadOf(dec_frame)) = 2 * KeyWords(key)

\* the quantity names of a key
NamesOf(key) ==
    CASE key = "1" -> <<"Temperature", "Humidity">>
      [] key = "2" -> <<"Moisture">>
      [] key = "3" -> <<"EC">>
      [] key = "4" -> <<"pH">>
      [] key = "5" -> <<"Nitrogen", "Phosphorus", "Potassium">>
      [] key = "6" -> <<"Nitrogen">>
      [] key = "7" -> <<"Phosphorus">>
      [] OTHER -> <<"Potassium">>

\* C11: decoding a response takes device_address from byte 0, byte_count
\* from the numeric value of byte 2, and as payload exactly byte_count bytes
\* from offset 3, also when byte 2 is 0x0A or 0x10.
C11_ByteCountNumeric ==
    (Decoded /\ dec_origin = "response") =>
        /\ dec_locals.device_id = hex(<<dec_frame[1]>>)
        /\ dec_locals.parsed
        /\ dec_locals.data = hex(SubSeq(dec_frame, 4, 3 + dec_frame[3]))

\* C12: every 16-bit field of the payload of a response is decoded as
\* two's-complement: v below 0x8000 as v, otherwise as v - 0x10000, so that
\* 0x8000 gives -32768, 0x7FFF gives 32767 and every raw value lies in
\* -32768..32767.
C12_TwosComplement ==
    (WellFormedFor(dec_key) /\ dec_out.kind = "reading") =>
        \A k \in 1..Len(dec_out.fields) :
            LET v == Word(PayloadOf(dec_frame), k)
                raw == dec_out.fields[k][2]
            IN  /\ raw = Signed16(v)
                /\ raw \in -32768..32767
                /\ v = 32768 => raw = -32768
                /\ v = 32767 => raw = 32767

\* C12 witness: a field 0x8000 was decoded to -32768
C12_Witness ==
    /\ WellFormedFor(dec_key)
    /\ dec_out.kind = "reading"
    /\ Word(PayloadOf(dec_frame), 1) = 32768
    /\ dec_out.fields[1][2] = -32768

\* C13: for every key "1".."8" and every response that carries the registers
\* of the key, the decoder returns a Reading with the names of the key, in
\* which every value is its own field's signed value over the key's scale.
C13_NamesByKey ==
    (Decoded /\ WellFormedFor(dec_key)) =>
        /\ dec_out.kind = "reading"
        /\ Len(dec_out.fields) = Len(NamesOf(dec_key))
        /\ \A k \in 1..Len(dec_out.fields) :
              /\ dec_out.fields[k][1] = NamesOf(dec_key)[k]
              /\ dec_out.fields[k][2] = Signed16(Word(PayloadOf(dec_frame), k))
        /\ dec_out.rate = catalog[dec_key].convert_rate

\* C14: a frame whose byte_count is not the number of payload bytes it
\* carries is rejected with MalformedFrame, and no Reading is computed from a
\* payload shorter or longer than the key's registers.
C14_MalformedRejected ==
    /\ (Decoded /\ dec_frame[3] # Len(PayloadOf(dec_frame)))
          => (dec_out.kind = "raise" /\ dec_out.exc = "MalformedFrame")
    /\ (Decoded /\ dec_key \in AllKeys
           /\ Len(PayloadOf(dec_frame)) # 2 * KeyWords(dec_key))
          => dec_out.kind # "reading"

\* the response with payload 0A 8C 00 FA was decoded with key "1", whose
\* convert_rate is 10
C15_Case ==
    /\ Decoded
    /\ dec_origin = "response" /\ ~dec_tampered
    /\ PayloadOf(dec_frame) = <<10, 140, 0, 250>>
    /\ dec_key = "1"
    /\ catalog["1"].convert_rate = 10

\* the reading {Temperature: t10 / 10, Humidity: h10 / 10}
C15_Reading(t10, h10) ==
    /\ dec_out.kind = "reading"
    /\ Len(dec_out.fields) = 2
    /\ dec_out.fields[1][1] = "Temperature"
    /\ dec_out.fields[1][2] * 10 = t10 * dec_out.rate
    /\ dec_out.fields[2][1] = "Humidity"
    /\ dec_out.fields[2][2] * 10 = h10 * dec_out.rate

\* C15 as stated: key "1", payload 0A8C00FA, convert_rate 10 decode to
\* {Temperature: 277.2, Humidity: 25.0}.
C15_Example277 == C15_Case => C15_Reading(2772, 250)

\* C15 amended: key "1", payload 0A8C00FA, convert_rate 10 decode to
\* {Temperature: 270.0, Humidity: 25.0} (0x0A8C = 2700, 0x00FA = 250).
C15_Example270 == C15_Case => C15_Reading(2700, 250)

\* C15 witness: that response was decoded with key "1" into a reading
C15_Witness == C15_Case /\ dec_out.kind = "reading"

\* C16 as stated: decoding the echo of a request recovers the address of the
\* request and its payload bytes (register and count) unchanged.
C16_EchoRoundTrip ==
    (Decoded /\ dec_origin = "echo") =>
        /\ dec_locals.device_id = hex(<<dec_frame[1]>>)
        /\ dec_locals.parsed
        /\ dec_locals.data = hex(SubSeq(dec_frame, 3, 6))

\* C16 amended: decoding the echo of a request recovers the address of the
\* request unchanged (as the two hex digits of byte 0), for every address and
\* template; the payload bytes are not recovered: the decoder takes byte 2
\* (register_hi) as the byte count.
C16_EchoAddress ==
    (Decoded /\ dec_origin = "echo") =>
        /\ dec_locals.device_id = hex(<<dec_frame[1]>>)
        /\ int_base(dec_locals.device_id, 16) = dec_frame[1]
        /\ dec_locals.data # hex(SubSeq(dec_frame, 3, 6))

\* C16 witness: the echo of a request for address 4 was decoded
C16_Witness ==
    /\ Decoded
    /\ dec_origin = "echo"
    /\ dec_frame[1] = 4
    /\ dec_locals.device_id = <<0, 4>>

-----------------------------------------------------------------------------
(* Properties of the polling loops *)

\* the pass has not ended with an exception nobody handles
PassGoesOn == poll_status \in {"running", "done"}

\* the port raised on the write or on the read of the last loop body and
\* no reopening of the port succeeded
PortRaised ==
    /\ op = "poll"
    /\ Has(events, "write_raise") \/ Has(events, "read_raise")
    /\ ~Has(events, "open")

\* C17: a transport failure on one address never ends the polling pass: when
\* the port raises on the write or the read of an address (and the reopening
\* fails), the pass goes on to the remaining addresses and does not end with
\* an unhandled error.
C17_TransportFailureContained == PortRaised => PassGoesOn

\* the last loop body wrote, called read, nothing raised and read returned
\* no data (a timeout or an empty response)
ReadCameEmpty ==
    /\ op = "poll"
    /\ Len(poll_log) > 0
    /\ poll_log[Len(poll_log)].ev # "write"
    /\ \E n \in 1..Len(poll_log) :
          /\ poll_log[n].ev = "read" /\ ~poll_log[n].data
          /\ \A k \in (n + 1)..Len(poll_log) : poll_log[k].ev = "sleep"
    /\ ~Has(events, "write_raise") /\ ~Has(events, "read_raise")
    /\ ~Has(events, "reset_raise")

\* C18: within one address a failed read (a timeout or an empty response)
\* for one instruction leaves its quantities absent and the session goes on
\* to the next instruction; it neither skips the rest of the address nor
\* stops the pass.
C18_FailedReadGoesOn == ReadCameEmpty => PassGoesOn

\* positions of the calls of write in the record of the pass
WritesAt == { n \in 1..Len(poll_log) : poll_log[n].ev = "write" }

\* n and k are the positions of two consecutive calls of write
Consecutive(n, k) ==
    /\ n \in WritesAt /\ k \in WritesAt /\ n < k
    /\ \A j \in (n + 1)..(k - 1) : j \notin WritesAt

\* number of entries of one kind strictly between two positions
Between(n, k, ev) ==
    Cardinality({ j \in (n + 1)..(k - 1) : poll_log[j].ev = ev })

\* C19: between any two consecutive request writes of a polling pass there
\* is exactly one sleep, whatever the earlier request came to (a reading, a
\* timeout; a request that failed to decode ends the pass, so no write
\* follows it).
C19_SleepBetweenWrites ==
    \A n \in WritesAt : \A k \in WritesAt :
        Consecutive(n, k) => Between(n, k, "sleep") = 1

\* a pass in which a request that produced data and a request that timed out
\* were each followed by a sleep and then by the next write
C19_Witness ==
    /\ \E n \in WritesAt, k \in WritesAt :
          /\ Consecutive(n, k) /\ Between(n, k, "sleep") = 1
          /\ \E j \in (n + 1)..(k - 1) :
                poll_log[j].ev = "read" /\ poll_log[j].data
    /\ \E n \in WritesAt, k \in WritesAt :
          /\ Consecutive(n, k) /\ Between(n, k, "sleep") = 1
          /\ \E j \in (n + 1)..(k - 1) :
                poll_log[j].ev = "read" /\ ~poll_log[j].data

\* the (address, key) pairs of a pass of read_soil_by_addr over
\* [1, poll_end], in the order of the two loops
PassPairs ==
    [n \in 1..(poll_end * Len(KeyOrder)) |->
        [addr |-> 1 + ((n - 1) \div Len(KeyOrder)),
         key |-> KeyOrder[1 + ((n - 1) % Len(KeyOrder))]]]

\* the calls of write of the pass, in order
IsWrite(e) == e.ev = "write"
WritesOf(log) == SelectSeq(log, IsWrite)

\* C20: a pass over [start, end] issues its requests in strict order:
\* addresses ascending, within an address the keys in declared order, exactly
\* one write per (address, key), and exactly one 13-byte read after each
\* write and before the next.  Stated of a pass of read_soil_by_addr that
\* has ended without any port failure.
C20_StrictOrder ==
    (/\ poll_script = "read_soil_by_addr"
     /\ poll_status # "running"
     /\ ~Has(events, "write_raise") /\ ~Has(events, "read_raise")
     /\ ~Has(events, "reset_raise"))
    => /\ Len(WritesOf(poll_log)) = Len(PassPairs)
       /\ \A n \in 1..Len(PassPairs) :
             /\ WritesOf(poll_log)[n].addr = PassPairs[n].addr
             /\ WritesOf(poll_log)[n].key = PassPairs[n].key
       /\ \A n \in WritesAt :
             /\ n < Len(poll_log)
             /\ poll_log[n + 1].ev = "read"
             /\ poll_log[n + 1].size = read_size
             /\ \A k \in (n + 2)..Len(poll_log) :
                   poll_log[k].ev = "read" => \E j \in (n + 1)..(k - 1) :
                                                  j \in WritesAt

\* no port call of the last loop body raised
NoPortFailure ==
    /\ ~Has(events, "write_raise") /\ ~Has(events, "read_raise")
    /\ ~Has(events, "reset_raise") /\ ~Has(events, "open_raise")

\* the result the specification gives a pass over [1, poll_end]: one entry
\* per address in order, each with the quantities decoded from the responses
\* to that address's own requests
IsPassResult(r) ==
    /\ r.kind = "readings"
    /\ Len(r.entries) = poll_end
    /\ \A n \in 1..poll_end :
          /\ r.entries[n].addr = n
          /\ \A e \in r.entries[n].reading : e.addr = n

\* C21: the Reading accumulated for an address holds only quantities decoded
\* from responses to that address's own requests, and the pass returns one
\* (address, Reading or None) entry per polled address, in order.  Stated of
\* a pass of read_soil_by_addr that ended without cancellation or port
\* failure.
C21_ReadingsPerAddress ==
    (/\ poll_script = "read_soil_by_addr"
     /\ poll_status \notin {"running", "cancelled"}
     /\ NoPortFailure)
    => /\ IsPassResult(poll_ret)
       /\ \A e \in collected_data : e.addr = poll_end

\* C22: after a cancellation during a pass no further request is written,
\* the link is closed, and the readings collected before the cancellation
\* are returned to the caller.
C22_CancelReturnsReadings ==
    (poll_status = "cancelled" /\ collected_data # {})
    => /\ device = None
       /\ ~ENABLED (PollByAddr \/ PollSingle)
       /\ poll_ret.kind = "readings"
       /\ poll_ret.reading = collected_data

\* C23: cancellation takes effect only at the boundary between two requests:
\* a pass that was cancelled has no write without the read paired with it,
\* and no write that stopped between its buffer reset and its port write.
C23_CancelAtBoundary ==
    (poll_status = "cancelled")
    => /\ \A n \in WritesAt :
             n < Len(poll_log) /\ poll_log[n + 1].ev = "read"
       /\ Has(events, "reset") => Has(events, "write")

\* C24: the link a polling session opened is closed on every way the
\* session ends: after a complete pass as well as after a cancellation the
\* link holds no port.
C24_LinkClosedAtEnd ==
    (poll_status \in {"done", "cancelled"}) => device = None

\* C29: a read in force_timeout mode that never found size bytes buffered
\* returns the Timeout outcome (None), no earlier than T after it started and
\* no later than T plus one iteration of its polling loop (the time between
\* the last test of the elapsed time that let the loop go on and the test
\* that ended it).
C29_TimeoutBoundary ==
    (tmo.pc = "done" /\ tmo.got = NoneVal /\ ~Has(events, "read_raise"))
    => /\ ret = NoneVal
       /\ tmo.returned - tmo.start >= tmo.T
       /\ tmo.returned - tmo.start <= tmo.T + (tmo.exit - tmo.last)

\* C31: read_while always terminates, even when the device keeps delivering
\* bytes while it runs: unless its port reads go on failing for ever, a call
\* that has started returns.
C31_ReadWhileTerminates ==
    \/ []<>Has(events, "read_raise")
    \/ (rw.pc = "test") ~> (rw.pc = "done")

\* the trailing two bytes of f are the CRC-16 of the bytes before them
ChecksumOk(f) ==
    /\ Len(f) >= 2
    /\ SubSeq(f, Len(f) - 1, Len(f)) = modbus_crc_16(DropLast(f, 2), "big")

\* f has the length its byte count declares: byte_count + 5
WellFormed(f) == Len(f) >= 5 /\ Len(f) = f[3] + 5

\* the exceptions read_value raises
DecodeErrors == {"ValueError", "KeyError", "UnboundLocalError", "TypeError"}

\* C32: a decode-level failure (checksum mismatch, malformed frame, unknown
\* key) is surfaced to the caller and has no effect on the transport: when
\* the read of a loop body returned a frame that is not a valid response
\* and no port call failed, the pass ends with the decoder's error, and the
\* link has the port and the fault flag it had and was neither closed nor
\* reopened.
C32_DecodeFailureIsolated ==
    (/\ op = "poll"
     /\ ret.kind = "bytes"
     /\ NoPortFailure
     /\ ~(ChecksumOk(ret.data) /\ WellFormed(ret.data)
          /\ inst_type \in DOMAIN catalog))
    => /\ poll_status \in DecodeErrors
       /\ poll_ret = Raised(poll_status)
       /\ device = pre.device
       /\ device_error = pre.device_error
       /\ ~Has(events, "close") /\ ~Has(events, "open")

\* the call ran reconnect: it closed the port or tried to open one
Reconnected ==
    \/ Has(events, "close") \/ Has(events, "close_raise")
    \/ Has(events, "open") \/ Has(events, "open_raise")

\* C33: while auto_reconnect is False no write, read, write_read or
\* read_while call invokes reconnect, whatever port calls fail.
C33_NoReconnectWhenOff ==
    (op \in {"write", "read", "write_read", "read_while"} /\ ~auto_reconnect)
    => ~Reconnected

\* C35: with auto_reconnect enabled, a read whose port call raised makes a
\* reconnect attempt before it returns.
C35_ReadFailureReconnects ==
    (op = "read" /\ auto_reconnect /\ Has(events, "read_raise")) => Reconnected

\* C36: on a link that holds no port (testing mode, or after disconnect)
\* write, read and write_read perform no port call, raise nothing, start no
\* reconnect and return None.
C36_NoPortNoEffect ==
    (op \in {"write", "read", "write_read"} /\ ~pre.device.present)
    => (ret = NoneVal /\ events = <<>> /\ attempts = 0 /\ device = None)

\* C37: disconnect is idempotent: called on a link that holds no port it
\* raises nothing, returns None and leaves every field of the link as it
\* was, so any number of consecutive calls has the effect of one.
C37_DisconnectIdempotent ==
    [][(op' = "disconnect" /\ ~device.present)
       => /\ ret' = NoneVal
          /\ events' = <<>>
          /\ UNCHANGED <<device, device_error, port_name, auto_reconnect,
                         verbose, inbuf>>]_vars

\* C37 witness: disconnect was called twice in a row, the first call having
\* closed an open port
C37_Witness ==
    /\ op = "disconnect"
    /\ ~pre.device.present
    /\ pre.device_error # "unset"
    /\ device = None
    /\ ret = NoneVal

\* the quantity names of an instruction key
KeyNames(k) ==
    IF k = "1" THEN {"Temperature", "Humidity"}
    ELSE IF k = "5" THEN {"Nitrogen", "Phosphorus", "Potassium"}
    ELSE IF k \in DOMAIN SingleNames THEN {SingleNames[k]}
    ELSE IF k = "8" THEN {"Potassium"}
    ELSE {}

\* C34: in a polling pass the response to the request built for instruction
\* key k is decoded with that same key: the quantities a loop body of
\* read_soil_by_addr stored from the response it read carry the names of
\* the key of its request.
C34_DecodedWithRequestKey ==
    (/\ poll_script = "read_soil_by_addr"
     /\ op = "poll"
     /\ ret.kind = "bytes"
     /\ NoPortFailure
     /\ collected_data # {})
    => \A e \in collected_data : e.name \in KeyNames(KeyOrder[poll_k])

\* C39: after any sequence of connect, stream, stop, close and internal
\* reconnect steps with arbitrary driver failures, a HIKROBOT camera is
\* streaming only while it is connected and holds a driver handle.
C39_StreamingImpliesConnected ==
    cam_streaming => (cam_connected /\ cam)

\* the numeric ids of a collection, as integers
NumericIds(docs) == { doc_int(id) : id \in { i \in DOMAIN docs : doc_int_ok(i) } }

\* the largest element of a non-empty set of integers
MaxOf(S) == CHOOSE n \in S : \A x \in S : x <= n

\* the last call stored its record under a new id above every numeric id,
\* kept every document there was, and added exactly one
StoredAbove ==
    /\ \A n \in NumericIds(db_pre) : doc_int(db_new) > n
    /\ db_new \notin DOMAIN db_pre
    /\ \A i \in DOMAIN db_pre : i \in DOMAIN db_data /\ db_data[i] = db_pre[i]
    /\ db_data[db_new] = [record |-> db_calls]
    /\ Cardinality(DOMAIN db_data) = Cardinality(DOMAIN db_pre) + 1

\* C40 as stated: each call of add_new_record stores its record under the
\* existing maximum of the numeric ids + 1, or 1 when there is none, an id
\* above every numeric id present; no document is overwritten and the
\* collection grows by exactly one.
C40_NextIdIsMaxPlusOne ==
    (db_calls > 0)
    => /\ StoredAbove
       /\ doc_int(db_new) = IF NumericIds(db_pre) = {} THEN 1
                            ELSE MaxOf(NumericIds(db_pre)) + 1

\* C40 amended: the id is one more than the larger of 0 and the existing
\* maximum of the numeric ids; it is above every numeric id present, no
\* document is overwritten and the collection grows by exactly one.
C40_NextIdAboveAll ==
    (db_calls > 0)
    => /\ StoredAbove
       /\ doc_int(db_new) = MaxOf(NumericIds(db_pre) \cup {0}) + 1

\* C40 witness: the second of two calls on a collection that held a
\* non-numeric id and the id 07
C40_Witness ==
    /\ db_calls = 2
    /\ <<"a">> \in DOMAIN db_pre
    /\ <<"0", "7">> \in DOMAIN db_pre
    /\ <<"8">> \in DOMAIN db_pre
    /\ db_new = <<"9">>

\* g occurs in f as a run of consecutive bytes
Contains(f, g) ==
    \E o \in 0..(Len(f) - Len(g)) : SubSeq(f, o + 1, o + Len(g)) = g

\* C8: every request frame written to the link is
\* [address, 0x03, register_hi, register_lo, count_hi, count_lo, crc_lo,
\* crc_hi]: 8 bytes, byte 0 the polled address, bytes 2..5 the template of
\* the instruction, the last two bytes the CRC-16 (low byte first) of the
\* bytes before them; and no frame contains an earlier frame.
C8_RequestFramesExact ==
    \A n \in 1..Len(poll_sent) :
        LET s == poll_sent[n]
            f == s.frame
        IN  /\ Len(f) = 8
            /\ f[1] = s.addr
            /\ f[2] = 3
            /\ s.key \in DOMAIN catalog
            /\ SubSeq(f, 3, 6) = catalog[s.key].bytes
            /\ f[7] + 256 * f[8] = RefCrc16(SubSeq(f, 1, 6))
            /\ \A m \in 1..(n - 1) : ~Contains(f, poll_sent[m].frame)

====
